---- MODULE Spec2Model ----
(***************************************************************************)
(* Session orchestration of the synesthesia application.                   *)
(*                                                                         *)
(*   SpecLive     the live timed-capture pipeline (LiveSynesthesia.tsx)    *)
(*   SpecCreator  the single-image create/edit session (CreatorStudio),    *)
(*                driven through the controls the interface renders        *)
(*   SpecHandler  the same session with handleGeneration also invoked      *)
(*                from the creation card without the prompt test of the    *)
(*                button's disabled attribute                              *)
(*   SpecStoryboard  the visual storyboard (VisualStoryboard.tsx)          *)
(*   SpecApp      the tabs of App: the mounted component takes the steps   *)
(*   SpecLiveConfig, SpecLiveFair  the live pipeline with its              *)
(*                configuration fields, and with its effects scheduled     *)
(*   SpecFacade   the operations of the generative service facade          *)
(*                (geminiService), applied to bounded inputs               *)
(*                                                                         *)
(* React state is modelled by its committed value.  A handler that awaits  *)
(* is split at its awaits: the continuation is a record in a sequence of   *)
(* pending operations and carries the values its closure captured.         *)
(* Text is a sequence of characters, so that trimming, concatenation and   *)
(* prefixes are computed.                                                  *)
(***************************************************************************)
EXTENDS Naturals, Integers, Sequences, FiniteSets, Bags, TLC

NULL == "null"

\* a null activeImageIndex
NoIndex == -1

\* MIN_FILE_SIZE = 1 * 1024 * 1024
MinFileSize == 1048576

\* MAX_FILE_SIZE = 20 * 1024 * 1024
MaxFileSize == 20971520

\* a size test that also refuses a file of exactly the maximum
TooLarge_AtBound(size) == size >= MaxFileSize

\* file.size > MAX_FILE_SIZE
TooLarge(size) == size > MaxFileSize

\* file.size < MIN_FILE_SIZE
TooSmall(size) == size < MinFileSize

(* ------------------------------ bounds --------------------------------- *)
MaxRuns == 2        \* startFlow invocations explored
MaxTarget == 2      \* largest image count typed into the count field
MaxChunks == 2      \* chunks buffered in audioChunksRef
MaxInFlight == 2    \* tick continuations explored at the same time
MaxClock == 1       \* largest reading of the clock

(* ------------------------------- clock --------------------------------- *)
VARIABLES
    now                  \* the reading Date.now() returns

clockVars == <<now>>

ClockInit == now = 0

\* the clock moves on to its next reading
AdvanceClock ==
    /\ now < MaxClock
    /\ now' = now + 1

(* --------------------------- text helpers ------------------------------ *)
IsSpace(c) == c = " "

RECURSIVE TrimStart(_)
TrimStart(s) == IF s # <<>> /\ IsSpace(Head(s)) THEN TrimStart(Tail(s)) ELSE s

RECURSIVE TrimEnd(_)
TrimEnd(s) ==
    IF s # <<>> /\ IsSpace(s[Len(s)]) THEN TrimEnd(SubSeq(s, 1, Len(s) - 1)) ELSE s

\* String.prototype.trim
Trim(s) == TrimEnd(TrimStart(s))

IsPrefix(p, s) == Len(p) <= Len(s) /\ SubSeq(s, 1, Len(p)) = p

IsProperPrefix(p, s) == IsPrefix(p, s) /\ Len(p) < Len(s)

RemoveAt(s, i) == SubSeq(s, 1, i - 1) \o SubSeq(s, i + 1, Len(s))

RECURSIVE SumSeq(_)
SumSeq(s) == IF s = <<>> THEN 0 ELSE Head(s) + SumSeq(Tail(s))

(***************************************************************************)
(*                        LIVE CAPTURE PIPELINE                            *)
(***************************************************************************)
VARIABLES
    liveState,            \* useState<LiveState>
    liveError,            \* useState error
    contextFilled,        \* location, activity and age all non-empty
    generationMode,       \* 'count' | 'duration'
    imageCount,
    duration,             \* minutes
    interval,             \* seconds
    generatedImages,      \* useState<LiveImageData[]>
    currentStatus,
    intervalRef,          \* TRUE while the tick timer is scheduled
    countdownRef,         \* TRUE while the countdown timer is scheduled
    cleanupPending,       \* the cleanup of the RECORDING effect is due to run
    audioChunksRef,       \* sizes of the buffered chunks
    mediaRecorderRef,     \* 0 (null) or the id of the referenced recorder
    recorders,            \* MediaRecorder.state of every recorder created
    tracksLive,           \* whether the recorder's stream track is live
    gumPending,           \* getUserMedia calls not yet settled
    runs,                 \* startFlow invocations so far
    isProcessingRef,
    closureImages,        \* generatedImages seen by the scheduled processAudioChunk
    ticks,                \* continuations of processAudioChunk awaiting the facade
    summaryRef,
    summaryReqs,          \* generateSummaryMarkdown calls awaiting the facade
    summaryEffectPending, \* the GENERATING effect is due to run
    summaryCalls,         \* summary requests issued since the last startFlow
    liveEvent             \* the last step of the live pipeline

liveVars == <<liveState, liveError, contextFilled, generationMode, imageCount,
              duration, interval, generatedImages, currentStatus, intervalRef,
              countdownRef, cleanupPending, audioChunksRef, mediaRecorderRef, recorders,
              tracksLive, gumPending, runs, isProcessingRef, closureImages,
              ticks, summaryRef, summaryReqs, summaryEffectPending,
              summaryCalls, liveEvent>>

MinChunkBytes == 1024

\* event.data.size: an empty chunk, or half of the 1KB minimum
ChunkSizes == {0, 512}

LivePrompts == {<<"a">>}

ImageCounts == 1..MaxTarget

\* options of the interval select explored
Intervals == {15, 25, 30}

\* minutes typed into the duration field
LiveDurations == {1, 2}

GenerationModes == {"count", "duration"}

RecorderIds == 1..MaxRuns

\* a target rounded up instead of down
totalImagesToGenerate_Ceil ==
    IF generationMode = "count" THEN imageCount
    ELSE (duration * 60 + interval - 1) \div interval

\* Math.floor((duration * 60) / interval), or imageCount
totalImagesToGenerate ==
    IF generationMode = "count" THEN imageCount ELSE (duration * 60) \div interval

\* `image_${imageIndex}.jpeg`
LiveFileName(imageIndex) == [prefix |-> "image_", ordinal |-> imageIndex, ext |-> ".jpeg"]

\* summaryRef.current === null
NoSummary == [text |-> NULL, prompts |-> <<>>]

LiveInit ==
    /\ liveState = "CONFIG"
    /\ liveError = NULL
    /\ contextFilled = FALSE
    /\ generationMode = "count"
    /\ imageCount = 5
    /\ duration = 1
    /\ interval = 15
    /\ generatedImages = <<>>
    /\ currentStatus = ""
    /\ intervalRef = FALSE
    /\ countdownRef = FALSE
    /\ cleanupPending = FALSE
    /\ audioChunksRef = <<>>
    /\ mediaRecorderRef = 0
    /\ recorders = [r \in RecorderIds |-> "none"]
    /\ tracksLive = [r \in RecorderIds |-> FALSE]
    /\ gumPending = 0
    /\ runs = 0
    /\ isProcessingRef = FALSE
    /\ closureImages = <<>>
    /\ ticks = <<>>
    /\ summaryRef = NoSummary
    /\ summaryReqs = <<>>
    /\ summaryEffectPending = FALSE
    /\ summaryCalls = 0
    /\ liveEvent = "init"

ConfigVisible == liveState \in {"CONFIG", "ERROR"}

\* condition of the effect on [generatedImages, totalImagesToGenerate, liveState]
TargetEffectDue ==
    liveState = "RECORDING" /\ Len(generatedImages) >= totalImagesToGenerate

\* condition of the effect on [liveState, generateSummary]
GeneratingEffectDue == summaryEffectPending /\ liveState = "GENERATING"

\* React flushes the passive effects of a commit before it renders a later
\* state update: a step that commits state waits for the effects that are due
EffectsFlushed == ~TargetEffectDue /\ ~GeneratingEffectDue /\ ~cleanupPending

UnchangedConfig == UNCHANGED <<contextFilled, generationMode, imageCount, duration, interval>>

UnchangedDevice == UNCHANGED <<mediaRecorderRef, recorders, tracksLive, gumPending, runs>>

UnchangedTimers == UNCHANGED <<intervalRef, countdownRef, cleanupPending>>

UnchangedSummary == UNCHANGED <<summaryRef, summaryReqs, summaryEffectPending, summaryCalls>>

\* the context inputs of the setup card
SetContext(filled) ==
    /\ ConfigVisible
    /\ EffectsFlushed
    /\ contextFilled' = filled
    /\ liveEvent' = "config"
    /\ UNCHANGED <<liveState, liveError, generationMode, imageCount, duration, interval,
                   generatedImages, currentStatus, audioChunksRef, isProcessingRef,
                   closureImages, ticks>>
    /\ UnchangedDevice /\ UnchangedTimers /\ UnchangedSummary

SetGenerationMode(m) ==
    /\ ConfigVisible
    /\ EffectsFlushed
    /\ generationMode' = m
    /\ liveEvent' = "config"
    /\ UNCHANGED <<liveState, liveError, contextFilled, imageCount, duration, interval,
                   generatedImages, currentStatus, audioChunksRef, isProcessingRef,
                   closureImages, ticks>>
    /\ UnchangedDevice /\ UnchangedTimers /\ UnchangedSummary

SetImageCount(n) ==
    /\ ConfigVisible
    /\ EffectsFlushed
    /\ generationMode = "count"
    /\ imageCount' = n
    /\ liveEvent' = "config"
    /\ UNCHANGED <<liveState, liveError, contextFilled, generationMode, duration, interval,
                   generatedImages, currentStatus, audioChunksRef, isProcessingRef,
                   closureImages, ticks>>
    /\ UnchangedDevice /\ UnchangedTimers /\ UnchangedSummary

\* onChange of the duration field, enabled in duration mode
SetDuration(d) ==
    /\ ConfigVisible
    /\ EffectsFlushed
    /\ generationMode = "duration"
    /\ duration' = d
    /\ liveEvent' = "config"
    /\ UNCHANGED <<liveState, liveError, contextFilled, generationMode, imageCount, interval,
                   generatedImages, currentStatus, audioChunksRef, isProcessingRef,
                   closureImages, ticks>>
    /\ UnchangedDevice /\ UnchangedTimers /\ UnchangedSummary

SetIntervalValue(i) ==
    /\ ConfigVisible
    /\ EffectsFlushed
    /\ interval' = i
    /\ liveEvent' = "config"
    /\ UNCHANGED <<liveState, liveError, contextFilled, generationMode, imageCount, duration,
                   generatedImages, currentStatus, audioChunksRef, isProcessingRef,
                   closureImages, ticks>>
    /\ UnchangedDevice /\ UnchangedTimers /\ UnchangedSummary

\* stopLiveRecording: stops the referenced recorder and its tracks when it
\* is recording, and clears both timers
StopLiveRecording ==
    /\ recorders' =
         IF mediaRecorderRef # 0 /\ recorders[mediaRecorderRef] = "recording"
         THEN [recorders EXCEPT ![mediaRecorderRef] = "inactive"]
         ELSE recorders
    /\ tracksLive' =
         IF mediaRecorderRef # 0 /\ recorders[mediaRecorderRef] = "recording"
         THEN [tracksLive EXCEPT ![mediaRecorderRef] = FALSE]
         ELSE tracksLive
    /\ intervalRef' = FALSE
    /\ countdownRef' = FALSE

\* a commit that leaves RECORDING schedules the cleanup of the RECORDING effect
RecordingCleanup ==
    /\ cleanupPending' = (cleanupPending \/ liveState = "RECORDING")
    /\ UNCHANGED <<recorders, tracksLive, intervalRef, countdownRef>>

\* the cleanup of the RECORDING effect: stopLiveRecording
RecordingCleanupEffect ==
    /\ cleanupPending
    /\ StopLiveRecording
    /\ cleanupPending' = FALSE
    /\ UNCHANGED <<liveState, liveError, generatedImages, currentStatus, audioChunksRef,
                   mediaRecorderRef, gumPending, runs, isProcessingRef, closureImages,
                   ticks, liveEvent>>
    /\ UnchangedConfig /\ UnchangedSummary

\* startFlow, with the RECORDING effect that schedules both timers; the
\* scheduled processAudioChunk closes over this render's generatedImages
StartFlow ==
    /\ ConfigVisible
    /\ EffectsFlushed
    /\ contextFilled
    /\ runs < MaxRuns
    /\ totalImagesToGenerate <= MaxTarget
    /\ liveError' = NULL
    /\ generatedImages' = <<>>
    /\ liveState' = "RECORDING"
    /\ gumPending' = gumPending + 1
    /\ runs' = runs + 1
    /\ intervalRef' = TRUE
    /\ countdownRef' = TRUE
    /\ cleanupPending' = FALSE
    /\ closureImages' = generatedImages'
    /\ summaryEffectPending' = FALSE
    /\ summaryCalls' = 0
    /\ liveEvent' = "start"
    /\ UNCHANGED <<currentStatus, audioChunksRef, mediaRecorderRef, recorders, tracksLive,
                   isProcessingRef, ticks, summaryRef, summaryReqs>>
    /\ UnchangedConfig

NewRecorderId == CHOOSE r \in RecorderIds : recorders[r] = "none" /\ \A q \in RecorderIds : recorders[q] = "none" => r <= q

\* startLiveRecording after getUserMedia resolved
GetUserMediaResolve ==
    /\ gumPending > 0
    /\ gumPending' = gumPending - 1
    /\ mediaRecorderRef' = NewRecorderId
    /\ audioChunksRef' = <<>>
    /\ recorders' = [recorders EXCEPT ![NewRecorderId] = "recording"]
    /\ tracksLive' = [tracksLive EXCEPT ![NewRecorderId] = TRUE]
    /\ liveEvent' = "micGranted"
    /\ UNCHANGED <<liveState, liveError, generatedImages, currentStatus, runs,
                   isProcessingRef, closureImages, ticks>>
    /\ UnchangedConfig /\ UnchangedTimers /\ UnchangedSummary

\* startLiveRecording's catch
GetUserMediaReject ==
    /\ gumPending > 0
    /\ EffectsFlushed
    /\ gumPending' = gumPending - 1
    /\ liveError' = "Could not access microphone"
    /\ liveState' = "ERROR"
    /\ RecordingCleanup
    /\ summaryEffectPending' = FALSE
    /\ liveEvent' = "micDenied"
    /\ UNCHANGED <<generatedImages, currentStatus, audioChunksRef, mediaRecorderRef, runs,
                   isProcessingRef, closureImages, ticks, summaryRef, summaryReqs,
                   summaryCalls>>
    /\ UnchangedConfig

\* mediaRecorder.ondataavailable
DataAvailable(r, size) ==
    /\ recorders[r] = "recording"
    /\ Len(audioChunksRef) < MaxChunks
    /\ audioChunksRef' = IF size > 0 THEN Append(audioChunksRef, size) ELSE audioChunksRef
    /\ liveEvent' = "data"
    /\ UNCHANGED <<liveState, liveError, generatedImages, currentStatus, isProcessingRef,
                   closureImages, ticks>>
    /\ UnchangedConfig /\ UnchangedDevice /\ UnchangedTimers /\ UnchangedSummary

\* processAudioChunk without the in-flight test
TickBusy_NoFlag == audioChunksRef = <<>>

\* the early return of processAudioChunk
TickBusy == isProcessingRef \/ audioChunksRef = <<>>

\* new Blob(audioChunksRef.current).size
BlobSize == SumSeq(audioChunksRef)

\* generatedImages.length + 1, in the closure the timer calls
ImageIndex == Len(closureImages) + 1

\* an extraction that leaves the extracted chunks in the buffer
BufferAfterExtraction_Kept == audioChunksRef

\* audioChunksRef.current = [] right after the blob is built
BufferAfterExtraction == <<>>

\* a small blob that leaves the in-flight flag set
FlagAfterSmallBlob_Held == TRUE

\* isProcessingRef.current = false before the return for a small blob
FlagAfterSmallBlob == FALSE

\* processAudioChunk up to its first await, called by the tick timer
ProcessAudioChunk ==
    /\ intervalRef
    /\ IF TickBusy
       THEN /\ liveEvent' = "tickSkipped"
            /\ UNCHANGED <<isProcessingRef, audioChunksRef, currentStatus, ticks>>
       ELSE /\ audioChunksRef' = BufferAfterExtraction
            /\ IF BlobSize < MinChunkBytes
               THEN /\ isProcessingRef' = FlagAfterSmallBlob
                    /\ liveEvent' = "tickSmall"
                    /\ UNCHANGED <<currentStatus, ticks>>
               ELSE /\ Len(ticks) < MaxInFlight
                    /\ isProcessingRef' = TRUE
                    /\ currentStatus' = "Analyzing sound"
                    /\ ticks' = Append(ticks, [stage |-> "fileToBase64",
                                               imageIndex |-> ImageIndex,
                                               prompt |-> <<>>])
                    /\ liveEvent' = "tickStarted"
    /\ UNCHANGED <<liveState, liveError, generatedImages, closureImages>>
    /\ UnchangedConfig /\ UnchangedDevice /\ UnchangedTimers /\ UnchangedSummary

\* a finally block that leaves the in-flight flag set
FlagAfterTick_Held == TRUE

\* finally: isProcessingRef.current = false
FlagAfterTick == FALSE

\* a facade call of a tick resolves
TickResolve(i, p) ==
    /\ i \in 1..Len(ticks)
    /\ LET t == ticks[i] IN
       \/ /\ t.stage = "fileToBase64"
          /\ p = <<>>
          /\ ticks' = [ticks EXCEPT ![i].stage = "generateLivePrompt"]
          /\ liveEvent' = "tickEncoded"
          /\ UNCHANGED <<generatedImages, currentStatus, isProcessingRef, summaryEffectPending>>
       \/ /\ t.stage = "generateLivePrompt"
          /\ EffectsFlushed
          /\ p \in LivePrompts
          /\ ticks' = [ticks EXCEPT ![i].stage = "generateImage", ![i].prompt = p]
          /\ currentStatus' = "Generating image"
          /\ liveEvent' = "tickPrompt"
          /\ UNCHANGED <<generatedImages, isProcessingRef, summaryEffectPending>>
       \/ /\ t.stage = "generateImage"
          /\ EffectsFlushed
          /\ p = <<>>
          /\ generatedImages' = Append(generatedImages,
                                       [id |-> now,
                                        prompt |-> t.prompt,
                                        fileName |-> LiveFileName(t.imageIndex)])
          /\ isProcessingRef' = FlagAfterTick
          /\ ticks' = RemoveAt(ticks, i)
          /\ summaryEffectPending' = (summaryEffectPending \/ liveState = "GENERATING")
          /\ liveEvent' = "imageAppended"
          /\ UNCHANGED currentStatus
    /\ UNCHANGED <<liveState, liveError, audioChunksRef, closureImages, summaryRef,
                   summaryReqs, summaryCalls>>
    /\ UnchangedConfig /\ UnchangedDevice /\ UnchangedTimers

\* a catch block that reports the failure of the tick in the error alert
TickReject_StopsFlow(i) ==
    /\ i \in 1..Len(ticks)
    /\ ticks' = RemoveAt(ticks, i)
    /\ isProcessingRef' = FlagAfterTick
    /\ liveError' = "Error in generation loop"
    /\ liveEvent' = "tickFailed"
    /\ UNCHANGED <<liveState, generatedImages, currentStatus, audioChunksRef,
                   closureImages>>
    /\ UnchangedConfig /\ UnchangedDevice /\ UnchangedTimers /\ UnchangedSummary

\* a facade call of a tick rejects: catch (console.error only), then finally
TickReject(i) ==
    /\ i \in 1..Len(ticks)
    /\ ticks' = RemoveAt(ticks, i)
    /\ isProcessingRef' = FlagAfterTick
    /\ liveEvent' = "tickFailed"
    /\ UNCHANGED <<liveState, liveError, generatedImages, currentStatus, audioChunksRef,
                   closureImages>>
    /\ UnchangedConfig /\ UnchangedDevice /\ UnchangedTimers /\ UnchangedSummary

\* the effect on [generatedImages, totalImagesToGenerate, liveState]
TargetReachedEffect ==
    /\ TargetEffectDue
    /\ StopLiveRecording
    /\ cleanupPending' = TRUE
    /\ liveState' = "GENERATING"
    /\ summaryEffectPending' = TRUE
    /\ liveEvent' = "targetReached"
    /\ UNCHANGED <<liveError, generatedImages, currentStatus, audioChunksRef,
                   mediaRecorderRef, gumPending, runs, isProcessingRef, closureImages,
                   ticks, summaryRef, summaryReqs, summaryCalls>>
    /\ UnchangedConfig

\* a stop that always goes on to the summary
AfterStop_AlwaysSummary(captured) == "GENERATING"

\* the branch of handleStop on generatedImages.length
AfterStop(captured) == IF captured > 0 THEN "GENERATING" ELSE "CONFIG"

\* handleStop
HandleStop ==
    /\ liveState = "RECORDING"
    /\ EffectsFlushed
    /\ StopLiveRecording
    /\ cleanupPending' = TRUE
    /\ liveState' = AfterStop(Len(generatedImages))
    /\ summaryEffectPending' = (liveState' = "GENERATING")
    /\ liveEvent' = "stop"
    /\ UNCHANGED <<liveError, generatedImages, currentStatus, audioChunksRef,
                   mediaRecorderRef, gumPending, runs, isProcessingRef, closureImages,
                   ticks, summaryRef, summaryReqs, summaryCalls>>
    /\ UnchangedConfig

\* the effect on [liveState, generateSummary] calling generateSummary, up to
\* its await; generateSummary is rebuilt whenever generatedImages changes
GeneratingEffect ==
    /\ GeneratingEffectDue
    /\ ~cleanupPending
    /\ summaryEffectPending' = FALSE
    /\ IF Len(generatedImages) = 0
       THEN /\ liveState' = "FINISHED"
            /\ liveEvent' = "finishedEmpty"
            /\ UNCHANGED <<currentStatus, summaryReqs, summaryCalls>>
       ELSE /\ currentStatus' = "Creating your story summary"
            /\ summaryReqs' = Append(summaryReqs,
                                     [prompts |-> [k \in 1..Len(generatedImages) |->
                                                      generatedImages[k].prompt]])
            /\ summaryCalls' = summaryCalls + 1
            /\ liveEvent' = "summaryRequested"
            /\ UNCHANGED liveState
    /\ UNCHANGED <<liveError, generatedImages, audioChunksRef, isProcessingRef,
                   closureImages, ticks, summaryRef>>
    /\ UnchangedConfig /\ UnchangedDevice /\ UnchangedTimers

\* generateSummaryMarkdown resolved: try body, then finally
SummaryResolve(i) ==
    /\ i \in 1..Len(summaryReqs)
    /\ EffectsFlushed
    /\ summaryRef' = [text |-> "summary", prompts |-> summaryReqs[i].prompts]
    /\ summaryReqs' = RemoveAt(summaryReqs, i)
    /\ liveState' = "FINISHED"
    /\ currentStatus' = ""
    /\ RecordingCleanup
    /\ summaryEffectPending' = FALSE
    /\ liveEvent' = "summaryDone"
    /\ UNCHANGED <<liveError, generatedImages, audioChunksRef, mediaRecorderRef,
                   gumPending, runs, isProcessingRef, closureImages, ticks, summaryCalls>>
    /\ UnchangedConfig

\* a catch block that leaves summaryRef.current null
FailedSummary_Null == NoSummary

\* summaryRef.current = 'Summary generation failed.'
FailedSummary == [text |-> "Summary generation failed.", prompts |-> <<>>]

\* the Download button is enabled and handleDownload goes past its first test
DownloadAvailable ==
    /\ liveState = "FINISHED"
    /\ summaryRef # NoSummary
    /\ currentStatus = ""

\* generateSummaryMarkdown rejected: catch, then finally
SummaryReject(i) ==
    /\ i \in 1..Len(summaryReqs)
    /\ EffectsFlushed
    /\ liveError' = "Could not generate summary. You can still download the images."
    /\ summaryRef' = FailedSummary
    /\ summaryReqs' = RemoveAt(summaryReqs, i)
    /\ liveState' = "FINISHED"
    /\ currentStatus' = ""
    /\ RecordingCleanup
    /\ summaryEffectPending' = FALSE
    /\ liveEvent' = "summaryFailed"
    /\ UNCHANGED <<generatedImages, audioChunksRef, mediaRecorderRef, gumPending, runs,
                   isProcessingRef, closureImages, ticks, summaryCalls>>
    /\ UnchangedConfig

\* a reset that keeps the images of the finished run
ResetFlow_KeepsImages ==
    /\ liveState = "FINISHED"
    /\ liveState' = "CONFIG"
    /\ liveError' = NULL
    /\ currentStatus' = ""
    /\ summaryRef' = NoSummary
    /\ summaryEffectPending' = FALSE
    /\ liveEvent' = "reset"
    /\ UNCHANGED <<generatedImages, audioChunksRef, isProcessingRef, closureImages, ticks,
                   summaryReqs, summaryCalls>>
    /\ UnchangedConfig /\ UnchangedDevice /\ UnchangedTimers

\* resetFlow
ResetFlow ==
    /\ liveState = "FINISHED"
    /\ liveState' = "CONFIG"
    /\ generatedImages' = <<>>
    /\ liveError' = NULL
    /\ currentStatus' = ""
    /\ summaryRef' = NoSummary
    /\ summaryEffectPending' = FALSE
    /\ liveEvent' = "reset"
    /\ UNCHANGED <<audioChunksRef, isProcessingRef, closureImages, ticks, summaryReqs,
                   summaryCalls>>
    /\ UnchangedConfig /\ UnchangedDevice /\ UnchangedTimers


(***************************************************************************)
(*                        SINGLE-IMAGE SESSION                             *)
(***************************************************************************)
VARIABLES
    appState,            \* useState<AppState>
    creatorError,        \* useState error
    audioFile,           \* NULL or the armed upload
    textPrompt,
    generationFilter,
    imageHistory,        \* useState<ImageData[]>
    activeImageIndex,    \* NoIndex or a 0-based index
    showWarningModal,
    modalConfirmAction,  \* the action the modal's Proceed button runs
    mic,                 \* useAudioRecorder's isRecording, and the textPrompt
                         \* seen by the onstop closure of the recorder
    creatorOps,          \* bag of the handler continuations awaiting the facade
    creatorEvent         \* the last step of the session

creatorVars == <<appState, creatorError, audioFile, textPrompt, generationFilter,
                 imageHistory, activeImageIndex, showWarningModal, modalConfirmAction,
                 mic, creatorOps, creatorEvent>>

MaxHistory == 2     \* history entries explored
MaxOps == 2         \* handler continuations explored at the same time

TextInputs == {<<>>, <<" ">>, <<"a">>}

\* response.text.trim() of the interpretation calls
InterpResults == {<<>>, <<"a">>}

\* the edit text and the style submitted from ImageDisplay
EditRequests ==
    {[editPrompt |-> <<"e">>, filter |-> "Anime"],
     [editPrompt |-> <<>>, filter |-> "unspecified"]}

\* err.message of a rejected facade call
FacadeError == "facade error"

PromptRequiredMsg == "A prompt is required to generate an image. Please type one or provide an audio file."

\* file.size of the uploads and recordings handed to AudioInput
AudioSizes == {MaxFileSize, MaxFileSize + 1}

\* onError of handleFileChange; the size is printed in MB with two decimals
FileTooLargeMsg == "File is too large (20.00MB). Max size is 20MB."

\* onError of handleRecordingDone
RecordingTooLargeMsg == "Recording is too large (20.00MB). Max size is 20MB."

MicOff == [recording |-> FALSE, prompt |-> <<>>]

CreatorInit ==
    /\ appState = "IDLE"
    /\ creatorError = NULL
    /\ audioFile = NULL
    /\ textPrompt = <<>>
    /\ generationFilter = "unspecified"
    /\ imageHistory = <<>>
    /\ activeImageIndex = NoIndex
    /\ showWarningModal = FALSE
    /\ modalConfirmAction = "none"
    /\ mic = MicOff
    /\ creatorOps = EmptyBag
    /\ creatorEvent = "init"

\* activeImage is not null: activeImageIndex !== null and the entry exists
HasActiveImage ==
    activeImageIndex # NoIndex /\ activeImageIndex + 1 \in 1..Len(imageHistory)

\* imageHistory[activeImageIndex]
ActiveImage == imageHistory[activeImageIndex + 1]

IsProcessing == appState # "IDLE" /\ appState # "ERROR"

\* the creation card (with AudioInput and its recorder hook) is mounted
FormMounted == Len(imageHistory) = 0 /\ ~IsProcessing

\* the creation card is rendered and the warning dialog is not open
FormVisible == FormMounted /\ ~showWarningModal

\* ImageDisplay, ImageHistory and Start Over are rendered
ImageVisible == HasActiveImage /\ ~showWarningModal

\* the emptiness test without trim
PromptMissing_NoTrim(p) == p = <<>>

\* the emptiness test of handleGeneration
PromptMissing(p) == Trim(p) = <<>>

\* disabled attribute of the Generate Image button
GenerateEnabled == ~IsProcessing /\ ~(audioFile = NULL /\ Trim(textPrompt) = <<>>)

\* a test of the edit text without trim
CanSubmit_NoTrim(editPrompt, filter) == editPrompt # <<>> \/ filter # "unspecified"

\* canSubmit of ImageDisplay
CanSubmit(editPrompt, filter) == Trim(editPrompt) # <<>> \/ filter # "unspecified"

\* the prompt lineage built by handleEdit
EditLineage(prompt, editPrompt, filter) ==
    prompt \o <<"\n\n---">>
           \o (IF filter # "unspecified" THEN <<"\nFilter: ", filter>> ELSE <<>>)
           \o (IF editPrompt # <<>> THEN <<"\nEdit: ">> \o editPrompt ELSE <<>>)

\* unmounting the creation card drops the state of useAudioRecorder
MicNext == IF FormMounted' THEN mic ELSE MicOff

\* a creation that appends to the history
RootHistory_Appends(history, newImage) == Append(history, newImage)

\* setImageHistory([newImage]) of handleGeneration
RootHistory(history, newImage) == <<newImage>>

\* a pending continuation moves on to its next await
ReplaceOp(op, next) == (creatorOps (-) SetToBag({op})) (+) SetToBag({next})

\* resetCreatorState
ResetCreatorState ==
    /\ ImageVisible
    /\ appState' = "IDLE"
    /\ creatorError' = NULL
    /\ audioFile' = NULL
    /\ textPrompt' = <<>>
    /\ generationFilter' = "unspecified"
    /\ imageHistory' = <<>>
    /\ activeImageIndex' = NoIndex
    /\ creatorEvent' = "startOver"
    /\ UNCHANGED <<showWarningModal, modalConfirmAction, creatorOps>>
    /\ mic' = MicNext

\* a selection that drops the entries after the selected one
SelectImage_Truncates(index) ==
    /\ ImageVisible
    /\ Len(imageHistory) > 1
    /\ index \in 0..(Len(imageHistory) - 1)
    /\ activeImageIndex' = index
    /\ imageHistory' = SubSeq(imageHistory, 1, index + 1)
    /\ creatorEvent' = "select"
    /\ UNCHANGED <<appState, creatorError, audioFile, textPrompt, generationFilter,
                   showWarningModal, modalConfirmAction, mic, creatorOps>>

\* onSelect={setActiveImageIndex} of ImageHistory
SelectImage(index) ==
    /\ ImageVisible
    /\ Len(imageHistory) > 1
    /\ index \in 0..(Len(imageHistory) - 1)
    /\ activeImageIndex' = index
    /\ creatorEvent' = "select"
    /\ UNCHANGED <<appState, creatorError, audioFile, textPrompt, generationFilter,
                   imageHistory, showWarningModal, modalConfirmAction, mic, creatorOps>>

\* the Close button of the error alert
CloseError ==
    /\ creatorError # NULL
    /\ ~showWarningModal
    /\ creatorError' = NULL
    /\ creatorEvent' = "input"
    /\ UNCHANGED <<appState, audioFile, textPrompt, generationFilter, imageHistory,
                   activeImageIndex, showWarningModal, modalConfirmAction, mic, creatorOps>>

\* onChange of the prompt textarea
TypePrompt(t) ==
    /\ FormVisible
    /\ audioFile = NULL
    /\ textPrompt' = t
    /\ audioFile' = NULL
    /\ creatorEvent' = "input"
    /\ UNCHANGED <<appState, creatorError, generationFilter, imageHistory, activeImageIndex,
                   showWarningModal, modalConfirmAction, mic, creatorOps>>

\* onChange of the style select
SetGenerationFilter(f) ==
    /\ FormVisible
    /\ generationFilter' = f
    /\ creatorEvent' = "input"
    /\ UNCHANGED <<appState, creatorError, audioFile, textPrompt, imageHistory,
                   activeImageIndex, showWarningModal, modalConfirmAction, mic, creatorOps>>

\* the action handleAudioFileSelected passes to handleActionWithPromptWarning
UploadAction ==
    /\ creatorError' = NULL
    /\ audioFile' = "file"
    /\ UNCHANGED <<appState, imageHistory, activeImageIndex, generationFilter, creatorOps,
                   mic>>

\* the action handleRecordingComplete passes, with processRecording up to its await
RecordingAction ==
    /\ BagCardinality(creatorOps) < MaxOps
    /\ creatorError' = NULL
    /\ audioFile' = NULL
    /\ appState' = "ANALYZING"
    /\ creatorOps' = creatorOps (+) SetToBag({[kind |-> "rec", stage |-> "fileToBase64"]})
    /\ mic' = MicOff
    /\ UNCHANGED <<imageHistory, activeImageIndex, generationFilter>>

\* handleFileChange of AudioInput, then handleAudioFileSelected
AudioFileSelected(size) ==
    /\ FormVisible
    /\ IF TooLarge(size)
       THEN /\ creatorError' = FileTooLargeMsg
            /\ creatorEvent' = "tooLarge"
            /\ UNCHANGED <<appState, audioFile, textPrompt, generationFilter, imageHistory,
                           activeImageIndex, showWarningModal, modalConfirmAction, mic,
                           creatorOps>>
       ELSE IF Trim(textPrompt) # <<>>
       THEN /\ modalConfirmAction' = "upload"
            /\ showWarningModal' = TRUE
            /\ creatorEvent' = "warn"
            /\ UNCHANGED <<appState, creatorError, audioFile, textPrompt, generationFilter,
                           imageHistory, activeImageIndex, mic,
                           creatorOps>>
       ELSE /\ UploadAction
            /\ creatorEvent' = "upload"
            /\ UNCHANGED <<textPrompt, showWarningModal, modalConfirmAction>>

\* startRecording of useAudioRecorder: the recorder's onstop keeps the
\* handlers of this render
StartRecording ==
    /\ FormVisible
    /\ audioFile = NULL
    /\ ~mic.recording
    /\ mic' = [recording |-> TRUE, prompt |-> textPrompt]
    /\ creatorEvent' = "input"
    /\ UNCHANGED <<appState, creatorError, audioFile, textPrompt, generationFilter,
                   imageHistory, activeImageIndex, showWarningModal, modalConfirmAction,
                   creatorOps>>

\* stopRecording, onstop, handleRecordingDone, handleRecordingComplete
StopRecording(size) ==
    /\ FormVisible
    /\ audioFile = NULL
    /\ mic.recording
    /\ IF TooLarge(size)
       THEN /\ creatorError' = RecordingTooLargeMsg
            /\ mic' = MicOff
            /\ creatorEvent' = "tooLarge"
            /\ UNCHANGED <<appState, audioFile, textPrompt, generationFilter, imageHistory,
                           activeImageIndex, showWarningModal, modalConfirmAction, creatorOps>>
       ELSE IF Trim(mic.prompt) # <<>>
       THEN /\ modalConfirmAction' = "recording"
            /\ showWarningModal' = TRUE
            /\ mic' = MicOff
            /\ creatorEvent' = "warn"
            /\ UNCHANGED <<appState, creatorError, audioFile, textPrompt, generationFilter,
                           imageHistory, activeImageIndex, creatorOps>>
       ELSE /\ RecordingAction
            /\ creatorEvent' = "recording"
            /\ UNCHANGED <<textPrompt, showWarningModal, modalConfirmAction>>

\* handleConfirm of Modal: onConfirm, then onClose
ModalProceed ==
    /\ showWarningModal
    /\ textPrompt' = <<>>
    /\ \/ modalConfirmAction = "upload" /\ UploadAction /\ creatorEvent' = "upload"
       \/ modalConfirmAction = "recording" /\ RecordingAction /\ creatorEvent' = "recording"
    /\ showWarningModal' = FALSE
    /\ UNCHANGED <<modalConfirmAction>>

\* Cancel, Escape or the backdrop of Modal
ModalCancel ==
    /\ showWarningModal
    /\ showWarningModal' = FALSE
    /\ creatorEvent' = "decline"
    /\ UNCHANGED <<appState, creatorError, audioFile, textPrompt, generationFilter,
                   imageHistory, activeImageIndex, modalConfirmAction, mic, creatorOps>>

\* processRecording: a facade call resolves
RecResolve(op, p) ==
    /\ BagIn(op, creatorOps)
    /\ op.kind = "rec"
    /\ \/ /\ op.stage = "fileToBase64"
          /\ p = <<>>
          /\ creatorOps' = ReplaceOp(op, [op EXCEPT !.stage = "transcribeAudioToPrompt"])
          /\ creatorEvent' = "progress"
          /\ UNCHANGED <<appState, textPrompt, audioFile>>
       \/ /\ op.stage = "transcribeAudioToPrompt"
          /\ p \in InterpResults
          /\ textPrompt' = p
          /\ audioFile' = NULL
          /\ appState' = "IDLE"
          /\ creatorOps' = creatorOps (-) SetToBag({op})
          /\ creatorEvent' = "recDone"
    /\ UNCHANGED <<creatorError, generationFilter, imageHistory, activeImageIndex,
                   showWarningModal, modalConfirmAction>>
    /\ mic' = MicNext

\* processRecording: a facade call rejects; catch, then finally
RecReject(op) ==
    /\ BagIn(op, creatorOps)
    /\ op.kind = "rec"
    /\ creatorError' = FacadeError
    /\ appState' = "IDLE"
    /\ creatorOps' = creatorOps (-) SetToBag({op})
    /\ creatorEvent' = "recFailed"
    /\ UNCHANGED <<audioFile, textPrompt, generationFilter, imageHistory, activeImageIndex,
                   showWarningModal, modalConfirmAction>>
    /\ mic' = MicNext

\* handleGeneration up to its first await; on the audio path finalPrompt is
\* assigned by generatePromptFromMusic before it is read
HandleGeneration ==
    /\ creatorError' = IF audioFile = NULL /\ PromptMissing(textPrompt)
                       THEN PromptRequiredMsg ELSE NULL
    /\ IF audioFile # NULL
       THEN /\ BagCardinality(creatorOps) < MaxOps
            /\ appState' = "ANALYZING"
            /\ creatorOps' = creatorOps (+) SetToBag({[kind |-> "gen", stage |-> "fileToBase64",
                                     finalPrompt |-> <<>>,
                                     filter |-> generationFilter]})
            /\ creatorEvent' = "genAnalyzing"
       ELSE IF PromptMissing(textPrompt)
       THEN /\ appState' = "IDLE"
            /\ creatorEvent' = "genInvalid"
            /\ UNCHANGED creatorOps
       ELSE /\ BagCardinality(creatorOps) < MaxOps
            /\ appState' = "GENERATING"
            /\ creatorOps' = creatorOps (+) SetToBag({[kind |-> "gen", stage |-> "generateImage",
                                     finalPrompt |-> textPrompt,
                                     filter |-> generationFilter]})
            /\ creatorEvent' = "genStarted"
    /\ UNCHANGED <<audioFile, textPrompt, generationFilter, imageHistory, activeImageIndex,
                   showWarningModal, modalConfirmAction>>
    /\ mic' = MicNext

\* the Generate Image button
ClickGenerate ==
    /\ FormVisible
    /\ GenerateEnabled
    /\ HandleGeneration

\* handleGeneration: a facade call resolves
GenResolve(op, p) ==
    /\ BagIn(op, creatorOps)
    /\ op.kind = "gen"
    /\ \/ /\ op.stage = "fileToBase64"
          /\ p = <<>>
          /\ creatorOps' = ReplaceOp(op, [op EXCEPT !.stage = "generatePromptFromMusic"])
          /\ creatorEvent' = "progress"
          /\ UNCHANGED <<appState, creatorError, textPrompt, imageHistory,
                         activeImageIndex>>
       \/ /\ op.stage = "generatePromptFromMusic"
          /\ p \in InterpResults
          /\ textPrompt' = p
          /\ IF PromptMissing(p)
             THEN /\ creatorError' = PromptRequiredMsg
                  /\ appState' = "IDLE"
                  /\ creatorOps' = creatorOps (-) SetToBag({op})
                  /\ creatorEvent' = "genInterpEmpty"
             ELSE /\ appState' = "GENERATING"
                  /\ creatorOps' = ReplaceOp(op, [op EXCEPT !.stage = "generateImage",
                                                                !.finalPrompt = p])
                  /\ creatorEvent' = "progress"
                  /\ UNCHANGED creatorError
          /\ UNCHANGED <<imageHistory, activeImageIndex>>
       \/ /\ op.stage = "generateImage"
          /\ p = <<>>
          /\ imageHistory' = RootHistory(imageHistory, [id |-> now, prompt |-> op.finalPrompt])
          /\ activeImageIndex' = 0
          /\ appState' = "IDLE"
          /\ creatorOps' = creatorOps (-) SetToBag({op})
          /\ creatorEvent' = "genDone"
          /\ UNCHANGED <<creatorError, textPrompt>>
    /\ UNCHANGED <<audioFile, generationFilter, showWarningModal, modalConfirmAction>>
    /\ mic' = MicNext

\* handleGeneration: a facade call rejects
GenReject(op) ==
    /\ BagIn(op, creatorOps)
    /\ op.kind = "gen"
    /\ creatorError' = FacadeError
    /\ appState' = "ERROR"
    /\ creatorOps' = creatorOps (-) SetToBag({op})
    /\ creatorEvent' = "genFailed"
    /\ UNCHANGED <<audioFile, textPrompt, generationFilter, imageHistory, activeImageIndex,
                   showWarningModal, modalConfirmAction>>
    /\ mic' = MicNext

\* handleSubmit of ImageDisplay and handleEdit up to its first await; the
\* handler closes over this render's activeImage and imageHistory
HandleEdit(editPrompt, filter, remix) ==
    /\ ImageVisible
    /\ CanSubmit(editPrompt, filter)
    /\ appState # "EDITING"
    /\ Len(imageHistory) < MaxHistory
    /\ BagCardinality(creatorOps) < MaxOps
    /\ creatorError' = NULL
    /\ appState' = "EDITING"
    /\ creatorOps' = creatorOps (+) SetToBag({[kind |-> "edit",
                             stage |-> IF remix THEN "fileToBase64" ELSE "editImage",
                             activePrompt |-> ActiveImage.prompt,
                             history |-> imageHistory,
                             editPrompt |-> editPrompt,
                             filter |-> filter]})
    /\ creatorEvent' = "editStarted"
    /\ UNCHANGED <<audioFile, textPrompt, generationFilter, imageHistory, activeImageIndex,
                   showWarningModal, modalConfirmAction>>
    /\ mic' = MicNext

\* the edit text and the style of the requests, with a blank edit text
EditInputs == EditRequests \cup {[editPrompt |-> <<" ">>, filter |-> "unspecified"]}

\* an edit request that returns at once
EditIgnored ==
    /\ creatorEvent' = "editIgnored"
    /\ UNCHANGED <<appState, creatorError, audioFile, textPrompt, generationFilter,
                   imageHistory, activeImageIndex, showWarningModal, modalConfirmAction,
                   mic, creatorOps>>

\* an edit request: the form of ImageDisplay is submitted (handleSubmit, then
\* handleEdit), or handleEdit is called while no entry is selected
EditRequest(editPrompt, filter, remix) ==
    \/ /\ ImageVisible
       /\ IF CanSubmit(editPrompt, filter) /\ appState # "EDITING"
          THEN HandleEdit(editPrompt, filter, remix)
          ELSE EditIgnored
    \/ /\ ~HasActiveImage
       /\ EditIgnored

\* an index one past the last entry
LastIndex_Length(history) == Len(history)

\* newHistory.length - 1
LastIndex(history) == Len(history) - 1

\* handleEdit: a facade call resolves; try body, then finally
EditResolve(op) ==
    /\ BagIn(op, creatorOps)
    /\ op.kind = "edit"
    /\ LET newHistory == Append(op.history,
                                [id |-> now,
                                 prompt |-> EditLineage(op.activePrompt, op.editPrompt,
                                                        op.filter)])
       IN \/ /\ op.stage = "fileToBase64"
             /\ creatorOps' = ReplaceOp(op, [op EXCEPT !.stage = "editImage"])
             /\ creatorEvent' = "progress"
             /\ UNCHANGED <<appState, imageHistory, activeImageIndex>>
          \/ /\ op.stage = "editImage"
             /\ imageHistory' = newHistory
             /\ activeImageIndex' = LastIndex(newHistory)
             /\ appState' = "IDLE"
             /\ creatorOps' = creatorOps (-) SetToBag({op})
             /\ creatorEvent' = "editDone"
    /\ UNCHANGED <<creatorError, audioFile, textPrompt, generationFilter, showWarningModal,
                   modalConfirmAction>>
    /\ mic' = MicNext

\* a catch block that withdraws the image the failed edit started from
EditReject_RollsBack(op) ==
    /\ BagIn(op, creatorOps)
    /\ op.kind = "edit"
    /\ creatorError' = FacadeError
    /\ appState' = "IDLE"
    /\ creatorOps' = creatorOps (-) SetToBag({op})
    /\ creatorEvent' = "editFailed"
    /\ imageHistory' = SubSeq(imageHistory, 1, Len(imageHistory) - 1)
    /\ activeImageIndex' = IF Len(imageHistory) > 1 THEN Len(imageHistory) - 2 ELSE NoIndex
    /\ UNCHANGED <<audioFile, textPrompt, generationFilter,
                   showWarningModal, modalConfirmAction>>
    /\ mic' = MicNext

\* handleEdit: a facade call rejects; catch, then finally
EditReject(op) ==
    /\ BagIn(op, creatorOps)
    /\ op.kind = "edit"
    /\ creatorError' = FacadeError
    /\ appState' = "IDLE"
    /\ creatorOps' = creatorOps (-) SetToBag({op})
    /\ creatorEvent' = "editFailed"
    /\ UNCHANGED <<audioFile, textPrompt, generationFilter, imageHistory, activeImageIndex,
                   showWarningModal, modalConfirmAction>>
    /\ mic' = MicNext

(***************************************************************************)
(*                             STORYBOARD                                  *)
(***************************************************************************)
VARIABLES
    storyboardState,     \* useState<StoryboardState>
    sbError,             \* useState error
    progressMessage,
    images,              \* useState<StoryboardImage[]>
    summary,
    sbRun,               \* the continuation of processFile awaiting a promise
    sbCalls,             \* promises awaited by the current processFile call
    sbFailure,           \* the rejection the last catch received
    sbEvent              \* the last step of the storyboard

storyboardVars == <<storyboardState, sbError, progressMessage, images, summary, sbRun,
                    sbCalls, sbFailure, sbEvent>>

\* file.size of the uploads explored
FileSizes == {MinFileSize - 1, MinFileSize, MinFileSize + 1, MaxFileSize, MaxFileSize + 1}

\* audio.duration in seconds
Durations == {0, 120, 121, 300, 301, 1799, 1800, 1801}

\* response.text.trim() of generatePromptFromAudioSegment
StoryPrompts == {<<"s">>}

TooSmallMsg == "File is too small. Minimum size is 1MB."

TooLargeMsg == "File is too large. Maximum size is 20MB."

UnknownProcessingMsg == "An unknown error occurred during processing."

\* reject('Could not read audio file metadata.'): a string, not an Error
DurationFailure == [kind |-> "string", text |-> "Could not read audio file metadata."]

\* reader.onerror = error => reject(error): a ProgressEvent
EncodeFailure == [kind |-> "event", text |-> ""]

\* throw new Error(error.message || ...) of the facade
FacadeFailure == [kind |-> "Error", text |-> FacadeError]

NoFailure == [kind |-> "none", text |-> ""]

\* err.message || 'An unknown error occurred during processing.'
CatchMessage(err) == IF err.kind = "Error" /\ err.text # "" THEN err.text ELSE UnknownProcessingMsg

\* the thresholds of processFile with the first one strict
NumSegments_StrictHalfHour(seconds) ==
    IF seconds > 30 * 60 THEN 7
    ELSE IF seconds > 5 * 60 THEN 5
    ELSE IF seconds > 2 * 60 THEN 4
    ELSE 3

\* numSegments of processFile
NumSegments(seconds) ==
    IF seconds >= 30 * 60 THEN 7
    ELSE IF seconds > 5 * 60 THEN 5
    ELSE IF seconds > 2 * 60 THEN 4
    ELSE 3

\* a partition whose last range has the size of the others
Segments_NoRemainder(size, numSegments) ==
    LET segmentSize == size \div numSegments
    IN [k \in 1..numSegments |->
           [start |-> (k - 1) * segmentSize, end |-> (k - 1) * segmentSize + segmentSize]]

\* the byte ranges file.slice(start, end) of processFile; k = i + 1
Segments(size, numSegments) ==
    LET segmentSize == size \div numSegments
    IN [k \in 1..numSegments |->
           LET start == (k - 1) * segmentSize
           IN [start |-> start,
               end |-> IF k - 1 = numSegments - 1 THEN size ELSE start + segmentSize]]

\* String(n)
RECURSIVE Digits(_)
Digits(n) == IF n < 10 THEN <<n>> ELSE Digits(n \div 10) \o <<n % 10>>

\* String.prototype.padStart
RECURSIVE PadStart(_, _, _)
PadStart(s, targetLength, c) ==
    IF Len(s) >= targetLength THEN s ELSE PadStart(<<c>> \o s, targetLength, c)

\* a scene filename without the zero padding
SceneFileName_NoPad(segmentNumber) ==
    [prefix |-> "scene_", digits |-> Digits(segmentNumber), ext |-> ".jpg"]

\* `scene_${String(segmentNumber).padStart(2, '0')}.jpg`
SceneFileName(segmentNumber) ==
    [prefix |-> "scene_", digits |-> PadStart(Digits(segmentNumber), 2, 0), ext |-> ".jpg"]

NoRun == [stage |-> "none", size |-> 0, numSegments |-> 0, segments |-> <<>>, i |-> 0,
          prompt |-> <<>>, generatedImages |-> <<>>]

StoryboardInit ==
    /\ storyboardState = "IDLE"
    /\ sbError = NULL
    /\ progressMessage = ""
    /\ images = <<>>
    /\ summary = ""
    /\ sbRun = NoRun
    /\ sbCalls = 0
    /\ sbFailure = NoFailure
    /\ sbEvent = "init"

\* the upload card is rendered
UploadVisible == storyboardState \in {"IDLE", "ERROR"}

\* handleFileChange and processFile up to its first await; resetState first
ProcessFile(size) ==
    /\ UploadVisible
    /\ images' = <<>>
    /\ summary' = ""
    /\ sbFailure' = NoFailure
    /\ IF TooSmall(size)
       THEN /\ sbError' = TooSmallMsg
            /\ storyboardState' = "ERROR"
            /\ progressMessage' = ""
            /\ sbRun' = NoRun
            /\ sbCalls' = 0
            /\ sbEvent' = "tooSmall"
       ELSE IF TooLarge(size)
       THEN /\ sbError' = TooLargeMsg
            /\ storyboardState' = "ERROR"
            /\ progressMessage' = ""
            /\ sbRun' = NoRun
            /\ sbCalls' = 0
            /\ sbEvent' = "tooLarge"
       ELSE /\ sbError' = NULL
            /\ storyboardState' = "PROCESSING"
            /\ progressMessage' = "Analyzing audio duration..."
            /\ sbRun' = [NoRun EXCEPT !.stage = "getAudioDuration", !.size = size]
            /\ sbCalls' = 1
            /\ sbEvent' = "accepted"

\* getAudioDuration resolved: segment count, partition, first segment's encoding
DurationResolve(seconds) ==
    /\ sbRun.stage = "getAudioDuration"
    /\ sbRun' = [sbRun EXCEPT !.stage = "fileToBase64",
                              !.numSegments = NumSegments(seconds),
                              !.segments = Segments(sbRun.size, NumSegments(seconds)),
                              !.i = 0]
    /\ progressMessage' = "Analyzing audio segment..."
    /\ sbCalls' = sbCalls + 1
    /\ sbEvent' = "partitioned"
    /\ UNCHANGED <<storyboardState, sbError, images, summary, sbFailure>>

\* an awaited promise of processFile rejects: the catch block
StoryboardCatch(err) ==
    /\ sbError' = CatchMessage(err)
    /\ storyboardState' = "ERROR"
    /\ sbRun' = NoRun
    /\ sbFailure' = err
    /\ sbEvent' = "failed"
    /\ UNCHANGED <<progressMessage, images, summary, sbCalls>>

\* getAudioDuration rejected
DurationReject ==
    /\ sbRun.stage = "getAudioDuration"
    /\ StoryboardCatch(DurationFailure)

\* a loop that leaves for the summary after its first image
AfterImage_SummaryEarly(i, n) == "summaryFileToBase64"

\* the loop test i < segments.length after i++: the next segment, or the summary
AfterImage(i, n) == IF i + 1 < n THEN "fileToBase64" ELSE "summaryFileToBase64"

\* a promise of the segment loop resolves
SegmentResolve(p) ==
    /\ \/ /\ sbRun.stage = "fileToBase64"
          /\ p = <<>>
          /\ sbRun' = [sbRun EXCEPT !.stage = "generatePromptFromAudioSegment"]
          /\ sbCalls' = sbCalls + 1
          /\ sbEvent' = "encoded"
          /\ UNCHANGED <<progressMessage, images>>
       \/ /\ sbRun.stage = "generatePromptFromAudioSegment"
          /\ p \in StoryPrompts
          /\ sbRun' = [sbRun EXCEPT !.stage = "generateImage", !.prompt = p]
          /\ progressMessage' = "Generating image..."
          /\ sbCalls' = sbCalls + 1
          /\ sbEvent' = "prompted"
          /\ UNCHANGED images
       \/ /\ sbRun.stage = "generateImage"
          /\ p = <<>>
          /\ LET segmentNumber == sbRun.i + 1
                 newImage == [id |-> now + sbRun.i,
                              segment |-> sbRun.segments[segmentNumber],
                              prompt |-> sbRun.prompt,
                              fileName |-> SceneFileName(segmentNumber)]
                 pushed == Append(sbRun.generatedImages, newImage)
             IN /\ images' = pushed
                /\ sbRun' = [sbRun EXCEPT
                               !.generatedImages = pushed,
                               !.i = sbRun.i + 1,
                               !.prompt = <<>>,
                               !.stage = AfterImage(sbRun.i, Len(sbRun.segments))]
                /\ progressMessage' = IF sbRun.i + 1 < Len(sbRun.segments)
                                      THEN "Analyzing audio segment..."
                                      ELSE "Generating story summary..."
          /\ sbCalls' = sbCalls + 1
          /\ sbEvent' = "sceneAdded"
    /\ UNCHANGED <<storyboardState, sbError, summary, sbFailure>>

\* a promise of the segment loop rejects
SegmentReject ==
    \/ sbRun.stage = "fileToBase64" /\ StoryboardCatch(EncodeFailure)
    \/ sbRun.stage \in {"generatePromptFromAudioSegment", "generateImage"}
          /\ StoryboardCatch(FacadeFailure)

\* the summary's promises resolve
StorySummaryResolve ==
    \/ /\ sbRun.stage = "summaryFileToBase64"
       /\ sbRun' = [sbRun EXCEPT !.stage = "generateStorySummaryFromAudio"]
       /\ sbCalls' = sbCalls + 1
       /\ sbEvent' = "encoded"
       /\ UNCHANGED <<storyboardState, sbError, progressMessage, images, summary, sbFailure>>
    \/ /\ sbRun.stage = "generateStorySummaryFromAudio"
       /\ summary' = "story summary"
       /\ progressMessage' = ""
       /\ storyboardState' = "FINISHED"
       /\ sbRun' = NoRun
       /\ sbEvent' = "finished"
       /\ UNCHANGED <<sbError, images, sbCalls, sbFailure>>

\* the summary's promises reject: the same catch block
StorySummaryReject ==
    \/ sbRun.stage = "summaryFileToBase64" /\ StoryboardCatch(EncodeFailure)
    \/ sbRun.stage = "generateStorySummaryFromAudio" /\ StoryboardCatch(FacadeFailure)

\* resetState, from Start New Storyboard
ResetState ==
    /\ storyboardState = "FINISHED"
    /\ storyboardState' = "IDLE"
    /\ sbError' = NULL
    /\ progressMessage' = ""
    /\ images' = <<>>
    /\ summary' = ""
    /\ sbEvent' = "reset"
    /\ UNCHANGED <<sbRun, sbCalls, sbFailure>>

\* the Close button of the storyboard's error alert
CloseStoryboardError ==
    /\ UploadVisible
    /\ sbError # NULL
    /\ sbError' = NULL
    /\ sbEvent' = "closed"
    /\ UNCHANGED <<storyboardState, progressMessage, images, summary, sbRun, sbCalls,
                   sbFailure>>

(***************************************************************************)
(*                          GENERATIVE FACADE                              *)
(***************************************************************************)
VARIABLES
    facadeRequest,       \* the last request a facade operation built
    facadeResult         \* what that operation returned or threw

facadeVars == <<facadeRequest, facadeResult>>

\* FILTERS
FilterTypes ==
    {"unspecified", "photorealistic", "Anime", "cartoon", "ink sketch", "black & white",
     "color pop", "water color", "raphaelite oil painting", "dark fantasy", "game art",
     "comic cover", "raphaelite-digital-art"}

\* filterStyles of formatPromptWithFilter
FilterStyles ==
    [f \in FilterTypes |->
       CASE f = "unspecified" -> ""
         [] f = "photorealistic" -> "ultra photorealistic style, hyper-detailed, hyper ultra realistic, real vision, realistic texture, 8k"
         [] f = "Anime" -> "vibrant anime style, clean line art, cel shaded"
         [] f = "cartoon" -> "charming cartoon style, bold outlines, simple shapes"
         [] f = "ink sketch" -> "black and white ink sketch style, cross-hatching, expressive lines"
         [] f = "black & white" -> "monochromatic black and white, dramatic lighting, high contrast"
         [] f = "color pop" -> "mostly black and white with a single subject in vibrant color, selective color"
         [] f = "water color" -> "soft watercolor painting style, blended colors, wet-on-wet technique"
         [] f = "raphaelite oil painting" -> "Pre-Raphaelite Brotherhood oil painting style, rich colors, high detail, romantic themes"
         [] f = "raphaelite-digital-art" -> "A beautiful blend of Pre-Raphaelite Brotherhood oil painting and vibrant Japanese Anime, creating a unique \"Raphaelite Digital Art\" look with rich colors, high detail, clean line art, and romantic themes."
         [] f = "dark fantasy" -> "dark fantasy digital art, epic scale, moody lighting, style of ArtStation and DeviantArt"
         [] f = "game art" -> "AAA game art style, Unreal Engine rendering, detailed character model, dynamic pose"
         [] f = "comic cover" -> "dynamic comic book cover art, bold inks, graphic style, vibrant colors"]

\* a formatting that adds the suffix for every style
FormatPromptWithFilter_AlwaysSuffix(prompt, filter) ==
    Trim(prompt) \o <<". Style: ", FilterStyles[filter], ".">>

\* formatPromptWithFilter
FormatPromptWithFilter(prompt, filter) ==
    IF filter = "unspecified" THEN prompt
    ELSE Trim(prompt) \o <<". Style: ", FilterStyles[filter], ".">>

\* prompts handed to generateImage and editImage
FacadePrompts == {<<"a">>, <<" ", "a">>, <<"a", " ">>, <<"a", ".">>}

\* the operations that send an audio part and read response.text
AudioOperations ==
    {"generatePromptFromMusic", "transcribeAudioToPrompt", "generateLivePrompt",
     "generatePromptFromAudioSegment", "generateStorySummaryFromAudio"}

\* the defaultMessage each operation passes to createErrorMessage
DefaultMessage ==
    [op \in AudioOperations |->
       CASE op = "generatePromptFromMusic" -> "Model failed to return a valid prompt from the audio."
         [] op = "transcribeAudioToPrompt" -> "Model failed to understand the recording."
         [] op = "generateLivePrompt" -> "Model failed to generate a live prompt from the audio."
         [] op = "generatePromptFromAudioSegment" -> "Model failed to generate a prompt for segment ${segmentNumber}."
         [] op = "generateStorySummaryFromAudio" -> "Model failed to generate a summary for the story."]

\* safetyRatings of a response: the category is the prefix and the name
SafetyRatings ==
    {<<>>,
     <<[category |-> <<"HARM_CATEGORY_", "HATE_SPEECH">>, probability |-> "HIGH"]>>,
     <<[category |-> <<"HARM_CATEGORY_", "HARASSMENT">>, probability |-> "MEDIUM"],
       [category |-> <<"HARM_CATEGORY_", "DANGEROUS_CONTENT">>, probability |-> "LOW"]>>}

\* GenerateContentResponse: an absent or empty text is <<>>, an absent reason NULL
Responses ==
    [blockReason : {NULL, "SAFETY"},
     promptRatings : SafetyRatings,
     finishReason : {NULL, "STOP", "MAX_TOKENS"},
     candidateRatings : SafetyRatings,
     text : {<<>>, <<" ", "t">>}]

\* category.replace('HARM_CATEGORY_', ''): the first occurrence is removed
RECURSIVE StripHarmPrefix(_)
StripHarmPrefix(category) ==
    IF category = <<>> THEN <<>>
    ELSE IF Head(category) = "HARM_CATEGORY_" THEN Tail(category)
    ELSE <<Head(category)>> \o StripHarmPrefix(Tail(category))

\* safetyRatings.map(...).join(', ')
RECURSIVE SafetyDetails(_)
SafetyDetails(ratings) ==
    IF ratings = <<>> THEN <<>>
    ELSE StripHarmPrefix(Head(ratings).category) \o <<": ", Head(ratings).probability>>
         \o (IF Tail(ratings) = <<>> THEN <<>> ELSE <<", ">> \o SafetyDetails(Tail(ratings)))

\* an error message that looks at the finish reason first
CreateErrorMessage_FinishFirst(response, defaultMessage) ==
    IF response.finishReason # NULL /\ response.finishReason # "STOP"
    THEN <<"Generation stopped unexpectedly. Reason: ", response.finishReason, ".">>
    ELSE IF response.blockReason # NULL
    THEN <<"Prompt was blocked. Reason: ", response.blockReason, ".">>
    ELSE <<defaultMessage>>

\* createErrorMessage
CreateErrorMessage(response, defaultMessage) ==
    IF response.blockReason # NULL
    THEN <<"Prompt was blocked. Reason: ", response.blockReason, ".">>
         \o (IF SafetyDetails(response.promptRatings) # <<>>
             THEN <<" Details: ">> \o SafetyDetails(response.promptRatings) ELSE <<>>)
    ELSE IF response.finishReason # NULL /\ response.finishReason # "STOP"
    THEN <<"Generation stopped unexpectedly. Reason: ", response.finishReason, ".">>
         \o (IF SafetyDetails(response.candidateRatings) # <<>>
             THEN <<" Details: ">> \o SafetyDetails(response.candidateRatings) ELSE <<>>)
    ELSE <<defaultMessage>>

NoRequest == [op |-> "none", prompt |-> <<>>, filter |-> "unspecified", text |-> <<>>,
              response |-> NULL]

NoResult == [kind |-> "none", text |-> <<>>, message |-> <<>>]

FacadeInit ==
    /\ facadeRequest = NoRequest
    /\ facadeResult = NoResult

\* generateImage up to its request: the text part is the formatted prompt
GenerateImage(prompt, filter) ==
    /\ facadeRequest' = [op |-> "generateImage", prompt |-> prompt, filter |-> filter,
                         text |-> FormatPromptWithFilter(prompt, filter), response |-> NULL]
    /\ facadeResult' = NoResult

\* editImage up to its request: the text part is the formatted prompt
EditImage(prompt, filter) ==
    /\ facadeRequest' = [op |-> "editImage", prompt |-> prompt, filter |-> filter,
                         text |-> FormatPromptWithFilter(prompt, filter), response |-> NULL]
    /\ facadeResult' = NoResult

\* an audio operation from the response on: the test of response.text, the
\* throw, and the catch that rethrows error.message
InterpretAudio(op, response) ==
    /\ facadeRequest' = [op |-> op, prompt |-> <<>>, filter |-> "unspecified",
                         text |-> <<>>, response |-> response]
    /\ facadeResult' =
         IF response.text = <<>>
         THEN [kind |-> "Error", text |-> <<>>,
               message |-> CreateErrorMessage(response, DefaultMessage[op])]
         ELSE [kind |-> "ok", text |-> Trim(response.text), message |-> <<>>]

(***************************************************************************)
(*                          ARCHIVE DOWNLOADS                              *)
(***************************************************************************)
VARIABLES
    download             \* the last archive handed to the browser, with the
                         \* image sequence it was built from

downloadVars == <<download>>

NoDownload == [of |-> "none", entries |-> {}, images |-> <<>>]

DownloadInit == download = NoDownload

\* JSZip file(): an entry added under an existing path replaces it
ZipFile(zip, path, kind, data) ==
    {e \in zip : e.path # path} \cup {[path |-> path, kind |-> kind, data |-> data]}

\* JSZip folder(): the directory entry
ZipFolder(zip, name) == ZipFile(zip, <<name>>, "dir", [name |-> name])

\* the loop over the images: folder.file(image.fileName, image.base64)
RECURSIVE ZipImages(_, _, _)
ZipImages(zip, folder, imgs) ==
    IF imgs = <<>> THEN zip
    ELSE ZipImages(ZipFile(zip, <<folder, Head(imgs).fileName>>, "image", Head(imgs)),
                   folder, Tail(imgs))

\* the archive handleDownload builds before it awaits generateAsync
BuildArchive(summaryName, summaryData, folder, imgs) ==
    ZipImages(ZipFolder(ZipFile({}, <<summaryName>>, "summary", summaryData), folder),
              folder, imgs)

\* handleDownload of LiveSynesthesia; generateAsync resolves or rejects
LiveHandleDownload(ok) ==
    /\ DownloadAvailable
    /\ IF ok
       THEN /\ download' = [of |-> "live",
                            entries |-> BuildArchive("summary.md", summaryRef, "images",
                                                     generatedImages),
                            images |-> generatedImages]
            /\ UNCHANGED liveError
       ELSE /\ liveError' = "Failed to create ZIP file."
            /\ UNCHANGED download
    /\ currentStatus' = ""
    /\ liveEvent' = "download"
    /\ UNCHANGED <<liveState, generatedImages, audioChunksRef, isProcessingRef, closureImages,
                   ticks>>
    /\ UnchangedConfig /\ UnchangedDevice /\ UnchangedTimers /\ UnchangedSummary

\* handleDownload of VisualStoryboard; generateAsync resolves or rejects
StoryboardHandleDownload(ok) ==
    /\ storyboardState = "FINISHED"
    /\ progressMessage = ""
    /\ IF ok
       THEN /\ download' = [of |-> "storyboard",
                            entries |-> BuildArchive("story_summary.md", [text |-> summary],
                                                     "storyboard_images", images),
                            images |-> images]
            /\ UNCHANGED sbError
       ELSE /\ sbError' = "Failed to create ZIP file."
            /\ UNCHANGED download
    /\ progressMessage' = ""
    /\ sbEvent' = "download"
    /\ UNCHANGED <<storyboardState, images, summary, sbRun, sbCalls, sbFailure>>

\* the state of the components a step of the live pipeline leaves alone
notLive == <<creatorVars, storyboardVars, facadeVars, downloadVars, clockVars>>

\* the state of the components a step of the single-image session leaves alone
notCreator == <<liveVars, storyboardVars, facadeVars, downloadVars, clockVars>>

\* the state of the components a step of the storyboard leaves alone
notStoryboard == <<liveVars, creatorVars, facadeVars, downloadVars, clockVars>>

\* the state of the components a call of the facade leaves alone
notFacade == <<liveVars, creatorVars, storyboardVars, downloadVars, clockVars>>

NextLive ==
    \/ \E filled \in BOOLEAN : SetContext(filled) /\ UNCHANGED notLive
    \/ \E n \in ImageCounts : SetImageCount(n) /\ UNCHANGED notLive
    \/ StartFlow /\ UNCHANGED notLive
    \/ GetUserMediaResolve /\ UNCHANGED notLive
    \/ GetUserMediaReject /\ UNCHANGED notLive
    \/ \E r \in RecorderIds, size \in ChunkSizes : DataAvailable(r, size) /\ UNCHANGED notLive
    \/ ProcessAudioChunk /\ UNCHANGED notLive
    \/ \E i \in 1..MaxInFlight, p \in LivePrompts \cup {<<>>} : TickResolve(i, p) /\ UNCHANGED notLive
    \/ \E i \in 1..MaxInFlight : TickReject(i) /\ UNCHANGED notLive
    \/ TargetReachedEffect /\ UNCHANGED notLive
    \/ HandleStop /\ UNCHANGED notLive
    \/ RecordingCleanupEffect /\ UNCHANGED notLive
    \/ GeneratingEffect /\ UNCHANGED notLive
    \/ \E i \in 1..(2 * MaxRuns) : SummaryResolve(i) /\ UNCHANGED notLive
    \/ \E i \in 1..(2 * MaxRuns) : SummaryReject(i) /\ UNCHANGED notLive
    \/ ResetFlow /\ UNCHANGED notLive

NextCreator ==
    \/ ResetCreatorState /\ UNCHANGED notCreator
    \/ \E index \in 0..(MaxHistory - 1) : SelectImage(index) /\ UNCHANGED notCreator
    \/ CloseError /\ UNCHANGED notCreator
    \/ \E t \in TextInputs : TypePrompt(t) /\ UNCHANGED notCreator
    \/ \E size \in AudioSizes : AudioFileSelected(size) /\ UNCHANGED notCreator
    \/ StartRecording /\ UNCHANGED notCreator
    \/ \E size \in AudioSizes : StopRecording(size) /\ UNCHANGED notCreator
    \/ ModalProceed /\ UNCHANGED notCreator
    \/ ModalCancel /\ UNCHANGED notCreator
    \/ \E op \in BagToSet(creatorOps), p \in InterpResults : RecResolve(op, p) /\ UNCHANGED notCreator
    \/ \E op \in BagToSet(creatorOps) : RecReject(op) /\ UNCHANGED notCreator
    \/ ClickGenerate /\ UNCHANGED notCreator
    \/ \E op \in BagToSet(creatorOps), p \in InterpResults : GenResolve(op, p) /\ UNCHANGED notCreator
    \/ \E op \in BagToSet(creatorOps) : GenReject(op) /\ UNCHANGED notCreator
    \/ \E q \in EditRequests, remix \in BOOLEAN : HandleEdit(q.editPrompt, q.filter, remix) /\ UNCHANGED notCreator
    \/ \E op \in BagToSet(creatorOps) : EditResolve(op) /\ UNCHANGED notCreator
    \/ \E op \in BagToSet(creatorOps) : EditReject(op) /\ UNCHANGED notCreator

\* handleGeneration called from the creation card whatever the prompt test in
\* the disabled attribute of its button
CreateFromText ==
    /\ FormVisible
    /\ HandleGeneration

vars == <<liveVars, creatorVars, storyboardVars, facadeVars, downloadVars, clockVars>>

Init == LiveInit /\ CreatorInit /\ StoryboardInit /\ FacadeInit /\ DownloadInit /\ ClockInit

SpecLive == Init /\ [][NextLive]_vars

SpecCreator == Init /\ [][NextCreator]_vars

NextHandler ==
    \/ NextCreator
    \/ CreateFromText /\ UNCHANGED notCreator

SpecHandler == Init /\ [][NextHandler]_vars

NextStoryboard ==
    \/ \E size \in FileSizes : ProcessFile(size) /\ UNCHANGED notStoryboard
    \/ \E seconds \in Durations : DurationResolve(seconds) /\ UNCHANGED notStoryboard
    \/ DurationReject /\ UNCHANGED notStoryboard
    \/ \E p \in StoryPrompts \cup {<<>>} : SegmentResolve(p) /\ UNCHANGED notStoryboard
    \/ SegmentReject /\ UNCHANGED notStoryboard
    \/ StorySummaryResolve /\ UNCHANGED notStoryboard
    \/ StorySummaryReject /\ UNCHANGED notStoryboard
    \/ ResetState /\ UNCHANGED notStoryboard
    \/ CloseStoryboardError /\ UNCHANGED notStoryboard

SpecStoryboard == Init /\ [][NextStoryboard]_vars

\* the live pipeline with the mode, duration and interval controls of the
\* setup card, followed through its first startFlow
NextLiveConfig ==
    \/ \E m \in GenerationModes : SetGenerationMode(m) /\ UNCHANGED notLive
    \/ \E d \in LiveDurations : SetDuration(d) /\ UNCHANGED notLive
    \/ \E i \in Intervals : SetIntervalValue(i) /\ UNCHANGED notLive
    \/ NextLive /\ (runs = 0 \/ runs' = runs)

SpecLiveConfig == Init /\ [][NextLiveConfig]_vars

\* React runs a scheduled passive effect, and a summary request that was
\* issued is settled by the facade
SpecLiveFair ==
    /\ Init
    /\ [][NextLive]_vars
    /\ WF_vars(TargetReachedEffect /\ UNCHANGED notLive)
    /\ WF_vars(RecordingCleanupEffect /\ UNCHANGED notLive)
    /\ WF_vars(GeneratingEffect /\ UNCHANGED notLive)
    /\ WF_vars(\E i \in 1..(2 * MaxRuns) : (SummaryResolve(i) \/ SummaryReject(i)) /\ UNCHANGED notLive)

\* the live pipeline followed through its first startFlow; every facade call
\* of a tick is settled by the facade
NextLiveFirst == NextLive /\ (runs = 0 \/ runs' = runs)

SpecLiveTicks ==
    /\ Init
    /\ [][NextLiveFirst]_vars
    /\ WF_vars(\E i \in 1..MaxInFlight, p \in LivePrompts \cup {<<>>} :
                  (TickResolve(i, p) \/ TickReject(i)) /\ UNCHANGED notLive)

NextFacade ==
    \/ \E prompt \in FacadePrompts, filter \in FilterTypes :
          GenerateImage(prompt, filter) /\ UNCHANGED notFacade
    \/ \E prompt \in FacadePrompts, filter \in FilterTypes :
          EditImage(prompt, filter) /\ UNCHANGED notFacade
    \/ \E op \in AudioOperations, response \in Responses :
          InterpretAudio(op, response) /\ UNCHANGED notFacade

SpecFacade == Init /\ [][NextFacade]_vars

\* the two batch pipelines with their Download buttons; they share no state,
\* so each is followed while the other is in its initial state
NextDownload ==
    \/ /\ sbEvent = "init"
       /\ \/ NextLive /\ UNCHANGED download
          \/ \E ok \in BOOLEAN :
                LiveHandleDownload(ok) /\ UNCHANGED <<creatorVars, storyboardVars, facadeVars, clockVars>>
    \/ /\ liveEvent = "init"
       /\ \/ NextStoryboard /\ UNCHANGED download
          \/ \E ok \in BOOLEAN :
                StoryboardHandleDownload(ok) /\ UNCHANGED <<liveVars, creatorVars, facadeVars, clockVars>>

SpecDownload == Init /\ [][NextDownload]_vars

\* the three pipelines with a clock that advances between their steps; they
\* share no state, so each is followed while the others are in their initial
\* state
NextClock ==
    \/ AdvanceClock /\ UNCHANGED <<liveVars, creatorVars, storyboardVars, facadeVars, downloadVars>>
    \/ NextLive /\ creatorEvent = "init" /\ sbEvent = "init"
    \/ NextCreator /\ liveEvent = "init" /\ sbEvent = "init"
    \/ NextStoryboard /\ liveEvent = "init" /\ creatorEvent = "init"

SpecClock == Init /\ [][NextClock]_vars

\* the single-image session driven by text: creation, selection, Start Over
\* and every edit request, also the ones that return at once
NextEdit ==
    \/ ResetCreatorState /\ UNCHANGED notCreator
    \/ \E index \in 0..(MaxHistory - 1) : SelectImage(index) /\ UNCHANGED notCreator
    \/ CloseError /\ UNCHANGED notCreator
    \/ \E t \in TextInputs : TypePrompt(t) /\ UNCHANGED notCreator
    \/ ClickGenerate /\ UNCHANGED notCreator
    \/ \E op \in BagToSet(creatorOps), p \in InterpResults : GenResolve(op, p) /\ UNCHANGED notCreator
    \/ \E op \in BagToSet(creatorOps) : GenReject(op) /\ UNCHANGED notCreator
    \/ \E q \in EditInputs, remix \in BOOLEAN :
          EditRequest(q.editPrompt, q.filter, remix) /\ UNCHANGED notCreator
    \/ \E op \in BagToSet(creatorOps) : EditResolve(op) /\ UNCHANGED notCreator
    \/ \E op \in BagToSet(creatorOps) : EditReject(op) /\ UNCHANGED notCreator

SpecEdit == Init /\ [][NextEdit]_vars

\* activeTab of App: one of CreatorStudio and VisualStoryboard is mounted, and
\* a mounted component starts from its initial state
CreatorTab == sbEvent = "init"

StoryboardTab == creatorEvent = "init"

NextApp ==
    \/ CreatorTab /\ NextCreator
    \/ StoryboardTab /\ NextStoryboard

SpecApp == Init /\ [][NextApp]_vars

(***************************************************************************)
(*                              PROPERTIES                                 *)
(***************************************************************************)

\* C1: at most one tick's processing is in flight at any time, the flag is
\* set while it is, and a tick that fires while the flag is set extracts
\* nothing, starts no facade call and appends no image.
C1_TickMutualExclusion ==
    /\ [](Len(ticks) <= 1 /\ (Len(ticks) = 1 <=> isProcessingRef))
    /\ [][(ProcessAudioChunk /\ isProcessingRef) =>
              UNCHANGED <<audioChunksRef, ticks, generatedImages, isProcessingRef>>]_vars

\* a tick fired with audio buffered while another tick was in flight
C1_Witness ==
    /\ liveEvent = "tickSkipped"
    /\ Len(ticks) = 1
    /\ isProcessingRef
    /\ audioChunksRef # <<>>

\* C2: outside Recording no media recorder is recording and no capture
\* track is live.
C2_MicReleasedOutsideRecording ==
    liveState # "RECORDING" =>
        \A r \in RecorderIds : recorders[r] # "recording" /\ ~tracksLive[r]

\* C3: in one run the summary request is issued exactly once after capture
\* stops: never more than once, and once when a summary has settled.
C3_SummaryIssuedOnce ==
    /\ summaryCalls <= 1
    /\ (liveEvent \in {"summaryDone", "summaryFailed"} => summaryCalls = 1)

\* C4: the k-th image of the sequence carries the filename image_k.jpeg.
C4_FileNameIsPosition ==
    \A k \in 1..Len(generatedImages) : generatedImages[k].fileName = LiveFileName(k)

\* C5: at most one interpret/generate/edit operation is in flight in the
\* single-image session.
C5_OneOperationInFlight == BagCardinality(creatorOps) <= 1

\* C6: after a failed interpret, generate or edit call the session is in
\* Error, and Error is left for Idle only by a reset.
C6_FailureLeavesError ==
    /\ [](creatorEvent \in {"genFailed", "recFailed", "editFailed"} => appState = "ERROR")
    /\ [][(appState = "ERROR" /\ appState' = "IDLE") => creatorEvent' = "startOver"]_vars

\* C7: a successful edit appends exactly one entry to the history, whose
\* prompt properly extends the prompt of the entry that was active when the
\* edit was requested, leaves the earlier entries unchanged and selects the
\* new last entry.
C7_EditAppendsOne ==
    [][\A op \in BagToSet(creatorOps) :
          (op.kind = "edit" /\ op.stage = "editImage" /\ EditResolve(op)) =>
              /\ Len(imageHistory') = Len(imageHistory) + 1
              /\ SubSeq(imageHistory', 1, Len(imageHistory)) = imageHistory
              /\ IsProperPrefix(op.activePrompt, imageHistory'[Len(imageHistory')].prompt)
              /\ activeImageIndex' = Len(imageHistory') - 1]_vars

\* C8: selecting a valid history index changes only the active index, and
\* selecting the index that is already selected changes nothing.
C8_SelectChangesOnlyIndex ==
    [][\A index \in 0..(MaxHistory - 1) :
          SelectImage(index) =>
              /\ activeImageIndex' = index
              /\ imageHistory' = imageHistory
              /\ UNCHANGED <<appState, creatorError, audioFile, textPrompt,
                             generationFilter, showWarningModal, modalConfirmAction,
                             mic, creatorOps>>
              /\ (activeImageIndex = index => activeImageIndex' = activeImageIndex)]_vars

\* an earlier entry of a history of two or more was selected
C8_Witness ==
    /\ creatorEvent = "select"
    /\ Len(imageHistory) >= 2
    /\ activeImageIndex = 0

\* C9: a successful creation leaves exactly one history entry, whose prompt
\* is the prompt sent to generation, and the active index 0, whatever the
\* history held before.
C9_CreationResetsHistory ==
    /\ [](creatorEvent = "genDone" => Len(imageHistory) = 1 /\ activeImageIndex = 0)
    /\ [][\A op \in BagToSet(creatorOps) :
             (op.kind = "gen" /\ op.stage = "generateImage" /\ GenResolve(op, <<>>)) =>
                 /\ Len(imageHistory') = 1
                 /\ imageHistory'[1].prompt = op.finalPrompt
                 /\ activeImageIndex' = 0]_vars

\* a creation has just succeeded
C9_Witness ==
    /\ creatorEvent = "genDone"
    /\ Len(imageHistory) = 1
    /\ Trim(imageHistory[1].prompt) # <<>>

\* C10: handleGeneration with a prompt that is empty after trimming and no
\* armed audio reports 'prompt required', starts no facade call, leaves the
\* history and the active index unchanged and leaves the session in Idle.
C10_PromptRequired ==
    [][(audioFile = NULL /\ Trim(textPrompt) = <<>> /\ HandleGeneration) =>
           /\ creatorError' = PromptRequiredMsg
           /\ appState' = "IDLE"
           /\ UNCHANGED <<creatorOps, imageHistory, activeImageIndex>>]_vars

\* handleGeneration has just rejected a whitespace-only prompt
C10_Witness ==
    /\ creatorEvent = "genInvalid"
    /\ textPrompt = <<" ">>
    /\ audioFile = NULL
    /\ creatorError = PromptRequiredMsg
    /\ appState = "IDLE"

\* C11: during a storyboard run the j-th entry of the image list is the
\* image of segment j and is named scene_0j.jpg, and producing the image of
\* segment i leaves exactly i entries with the earlier ones in place.
C11_ScenesInSegmentOrder ==
    /\ [](\A j \in 1..Len(images) :
             /\ images[j].fileName = [prefix |-> "scene_", digits |-> <<0, j>>, ext |-> ".jpg"]
             /\ (sbRun.stage # "none" => images[j].segment = sbRun.segments[j]))
    /\ [][sbEvent' = "sceneAdded" =>
              /\ Len(images') = sbRun.i + 1
              /\ Len(images') = Len(images) + 1
              /\ SubSeq(images', 1, Len(images)) = images]_vars

\* the image of the seventh segment of a run has just been produced
C11_Witness ==
    /\ sbEvent = "sceneAdded"
    /\ storyboardState = "PROCESSING"
    /\ Len(images) = 7

\* C12: the segment count is 7 for d >= 1800 seconds, else 5 for d > 300,
\* else 4 for d > 120, else 3, whatever the file: 120 -> 3, 121 -> 4,
\* 300 -> 4, 301 -> 5, 1799 -> 5, 1800 -> 7.
C12_SegmentCountThresholds ==
    [][\A d \in Durations :
          DurationResolve(d) =>
              /\ sbRun'.numSegments =
                     (IF d >= 1800 THEN 7 ELSE IF d > 300 THEN 5 ELSE IF d > 120 THEN 4 ELSE 3)
              /\ (d = 120 => sbRun'.numSegments = 3)
              /\ (d = 121 => sbRun'.numSegments = 4)
              /\ (d = 300 => sbRun'.numSegments = 4)
              /\ (d = 301 => sbRun'.numSegments = 5)
              /\ (d = 1799 => sbRun'.numSegments = 5)
              /\ (d = 1800 => sbRun'.numSegments = 7)]_vars

\* a file has just been partitioned into seven segments
C12_Witness ==
    /\ sbEvent = "partitioned"
    /\ sbRun.numSegments = 7

\* C13: the partition of a file of S bytes into n segments is n contiguous
\* byte ranges from 0 to S; the first n-1 have floor(S/n) bytes and the last
\* has S - (n-1)*floor(S/n).
C13_PartitionCoversFile ==
    sbRun.stage \notin {"none", "getAudioDuration"} =>
        LET S == sbRun.size
            n == sbRun.numSegments
            seg == sbRun.segments
        IN /\ Len(seg) = n
           /\ seg[1].start = 0
           /\ seg[n].end = S
           /\ \A k \in 2..n : seg[k].start = seg[k - 1].end
           /\ \A k \in 1..(n - 1) : seg[k].end - seg[k].start = S \div n
           /\ seg[n].end - seg[n].start = S - (n - 1) * (S \div n)

\* a file whose size is not a multiple of the segment count is partitioned
C13_Witness ==
    /\ sbEvent = "partitioned"
    /\ sbRun.size % sbRun.numSegments # 0
    /\ Len(sbRun.segments) = sbRun.numSegments

\* C15: a failure of the duration probe or of a step of the segment loop
\* leaves the storyboard in Error with the message of that failure, and the
\* run issues no further call.
C15_FailureKeepsMessage ==
    [][(DurationReject \/ SegmentReject) =>
           /\ storyboardState' = "ERROR"
           /\ (sbFailure'.text # "" => sbError' = sbFailure'.text)
           /\ sbRun' = NoRun
           /\ sbCalls' = sbCalls]_vars

\* C16: when the summary of a storyboard whose images were all produced
\* fails, the storyboard is Finished with a placeholder summary and the
\* images are kept.
C16_SummaryFailureNotFatal ==
    [][StorySummaryReject =>
           /\ storyboardState' = "FINISHED"
           /\ summary' # ""
           /\ images' = images]_vars

\* C14: an upload larger than MAX_FILE_SIZE is refused by processFile and by
\* the audio input of the single-image session (upload and recording), and an
\* upload smaller than MIN_FILE_SIZE is refused by processFile: the error is
\* set and no call is started; a file of exactly a bound is taken.
C14_SizeBoundsEnforced ==
    [][/\ \A size \in FileSizes :
            ProcessFile(size) =>
                IF size < MinFileSize \/ size > MaxFileSize
                THEN /\ storyboardState' = "ERROR"
                     /\ sbError' = (IF size < MinFileSize THEN TooSmallMsg ELSE TooLargeMsg)
                     /\ sbRun' = NoRun
                     /\ sbCalls' = 0
                ELSE /\ storyboardState' = "PROCESSING"
                     /\ sbError' = NULL
                     /\ sbRun'.size = size
       /\ \A size \in AudioSizes :
            AudioFileSelected(size) =>
                IF size > MaxFileSize
                THEN /\ creatorError' = FileTooLargeMsg
                     /\ creatorOps' = creatorOps
                     /\ audioFile' = audioFile
                     /\ appState' = appState
                     /\ ~showWarningModal'
                ELSE \/ audioFile' = "file" /\ creatorError' = NULL
                     \/ showWarningModal' /\ modalConfirmAction' = "upload"
       /\ \A size \in AudioSizes :
            StopRecording(size) =>
                IF size > MaxFileSize
                THEN /\ creatorError' = RecordingTooLargeMsg
                     /\ creatorOps' = creatorOps
                     /\ audioFile' = audioFile
                     /\ appState' = appState
                     /\ ~showWarningModal'
                ELSE \/ /\ appState' = "ANALYZING"
                        /\ BagCardinality(creatorOps') = BagCardinality(creatorOps) + 1
                        /\ creatorError' = NULL
                     \/ showWarningModal' /\ modalConfirmAction' = "recording"
      ]_vars

\* an oversized recording was refused: the error is shown, nothing is pending
C14_Witness ==
    /\ creatorEvent = "tooLarge"
    /\ creatorError = RecordingTooLargeMsg
    /\ appState = "IDLE"
    /\ creatorOps = EmptyBag

\* C17: a rejected summary request ends in FINISHED with the placeholder text
\* as summary, leaves the image sequence as it was and leaves the archive
\* download available.
C17_SummaryFailureDegrades ==
    [][(\E i \in 1..(2 * MaxRuns) : SummaryReject(i)) =>
           /\ liveState' = "FINISHED"
           /\ summaryRef'.text = "Summary generation failed."
           /\ generatedImages' = generatedImages
           /\ DownloadAvailable']_vars

\* a run with images whose summary request failed
C17_Witness ==
    /\ liveEvent = "summaryFailed"
    /\ liveState = "FINISHED"
    /\ Len(generatedImages) > 0
    /\ summaryRef = FailedSummary
    /\ DownloadAvailable

\* C18: the target is imageCount in count mode and the floor of
\* duration * 60 / interval in duration mode (5 images give 5; 2 minutes every
\* 15 seconds give 8), and no step taken outside the setup card changes it.
C18_TargetFromConfiguration ==
    /\ [](/\ generationMode = "count" => totalImagesToGenerate = imageCount
          /\ generationMode = "duration" =>
                /\ totalImagesToGenerate * interval <= duration * 60
                /\ duration * 60 < (totalImagesToGenerate + 1) * interval
          /\ generationMode = "count" /\ imageCount = 5 => totalImagesToGenerate = 5
          /\ generationMode = "duration" /\ duration = 2 /\ interval = 15 =>
                totalImagesToGenerate = 8)
    /\ [][(liveState # "CONFIG" /\ liveState # "ERROR" /\ liveState' # "CONFIG") =>
             totalImagesToGenerate' = totalImagesToGenerate]_vars

\* a run in duration mode whose target is a rounded-down quotient
C18_Witness ==
    /\ liveState = "RECORDING"
    /\ generationMode = "duration"
    /\ duration = 1
    /\ interval = 25
    /\ totalImagesToGenerate = 2
    /\ Len(generatedImages) = 1

\* C19: when the sequence has reached the target while RECORDING, the effect
\* stops the capture (no recorder keeps recording, both timers are cleared)
\* and moves to GENERATING, and FINISHED follows without a user action.
C19_TargetReachedCompletes ==
    /\ [][TargetReachedEffect =>
             /\ liveState' = "GENERATING"
             /\ ~intervalRef' /\ ~countdownRef'
             /\ \A r \in RecorderIds : recorders'[r] # "recording"]_vars
    /\ ((liveState = "RECORDING" /\ Len(generatedImages) >= totalImagesToGenerate)
            ~> liveState = "FINISHED")

\* C20: from startFlow until the run is reset, the image sequence never holds
\* more images than the target.
C20_ImagesWithinTarget ==
    liveState \in {"RECORDING", "GENERATING", "FINISHED"} =>
        Len(generatedImages) <= totalImagesToGenerate

\* C21: the Stop button pressed while RECORDING leads to CONFIG when no image
\* has been captured and to GENERATING when at least one has.
C21_ManualStop ==
    [][HandleStop =>
           /\ liveState = "RECORDING"
           /\ Len(generatedImages) = 0 => liveState' = "CONFIG"
           /\ Len(generatedImages) >= 1 => liveState' = "GENERATING"]_vars

\* a run stopped by hand after its first image
C21_Witness ==
    /\ liveEvent = "stop"
    /\ liveState = "GENERATING"
    /\ Len(generatedImages) >= 1
    /\ Len(generatedImages) < totalImagesToGenerate

\* C22: Start New Flow, offered in FINISHED, leaves the pipeline in CONFIG with
\* no image, no summary, no error message and no status text.
C22_ResetClearsRun ==
    [][ResetFlow =>
           /\ liveState = "FINISHED"
           /\ liveState' = "CONFIG"
           /\ generatedImages' = <<>>
           /\ summaryRef' = NoSummary
           /\ liveError' = NULL
           /\ currentStatus' = ""]_vars

\* the setup card after a finished run was reset
C22_Witness ==
    /\ liveEvent = "reset"
    /\ liveState = "CONFIG"
    /\ runs >= 1
    /\ generatedImages = <<>>
    /\ summaryRef = NoSummary

\* C23: outside RECORDING neither the tick timer nor the countdown timer is
\* scheduled, so processAudioChunk is never called by the timer there.
C23_NoTimerOutsideRecording ==
    /\ [](liveState # "RECORDING" => ~intervalRef /\ ~countdownRef)
    /\ [][ProcessAudioChunk => liveState = "RECORDING"]_vars

\* C24: an extraction takes the whole buffer and leaves it empty, and the
\* buffer otherwise changes only by one newly delivered chunk or by being
\* emptied: a chunk that went into one tick's blob is in no later blob.
C24_ChunksExtractedOnce ==
    [][/\ (ProcessAudioChunk /\ ~TickBusy) => audioChunksRef' = <<>>
       /\ audioChunksRef' # audioChunksRef =>
              \/ audioChunksRef' = <<>>
              \/ \E size \in ChunkSizes \ {0} : audioChunksRef' = Append(audioChunksRef, size)
      ]_vars

\* the second extraction of a run, made after chunks arrived during the first
C24_Witness ==
    /\ liveEvent = "tickStarted"
    /\ liveState = "RECORDING"
    /\ Len(generatedImages) = 1
    /\ Len(ticks) = 1
    /\ audioChunksRef = <<>>

\* the '. Style: <phrase>.' suffix of a style
StyleSuffix(filter) == <<". Style: ", FilterStyles[filter], ".">>

\* the number of suffix openings in a text
RECURSIVE SuffixCount(_)
SuffixCount(text) ==
    IF text = <<>> THEN 0
    ELSE (IF Head(text) = ". Style: " THEN 1 ELSE 0) + SuffixCount(Tail(text))

FormatsImage == facadeRequest.op \in {"generateImage", "editImage"}

\* C25 as stated: with style 'unspecified' the request text is the prompt
\* unchanged; with any other style it is the prompt followed by exactly one
\* '. Style: <phrase>.' suffix, for generateImage and editImage alike.
C25_PromptThenSuffix ==
    FormatsImage =>
        IF facadeRequest.filter = "unspecified"
        THEN facadeRequest.text = facadeRequest.prompt
        ELSE /\ facadeRequest.text = facadeRequest.prompt \o StyleSuffix(facadeRequest.filter)
             /\ SuffixCount(facadeRequest.text) = 1

\* C25 (amended): with style 'unspecified' the request text is the prompt
\* unchanged; with any other style it is the prompt with its leading and
\* trailing whitespace removed, followed by exactly one '. Style: <phrase>.'
\* suffix whose phrase is the table entry of the style, for generateImage and
\* editImage alike.
C25_TrimmedPromptThenSuffix ==
    FormatsImage =>
        IF facadeRequest.filter = "unspecified"
        THEN facadeRequest.text = facadeRequest.prompt
        ELSE /\ facadeRequest.text =
                  Trim(facadeRequest.prompt) \o StyleSuffix(facadeRequest.filter)
             /\ SuffixCount(facadeRequest.text) = 1

C25_Witness ==
    /\ facadeRequest.op = "editImage"
    /\ facadeRequest.filter = "Anime"
    /\ facadeRequest.prompt = <<" ", "a">>
    /\ facadeRequest.text = <<"a", ". Style: ", "vibrant anime style, clean line art, cel shaded", ".">>

\* an audio operation was handed a response with a block reason and no text
BlockedWithoutText ==
    /\ facadeRequest.op \in AudioOperations
    /\ facadeRequest.response.blockReason # NULL
    /\ facadeRequest.response.text = <<>>

\* the message names the category and the probability of a rating
NamesRating(message, rating) ==
    \E j \in 1..(Len(message) - 2) :
        /\ message[j] = rating.category[Len(rating.category)]
        /\ message[j + 1] = ": "
        /\ message[j + 2] = rating.probability

\* C26: a response with a block reason and no text makes every audio
\* operation fail with an error whose message contains the block reason, and
\* the category and probability of every safety rating of the prompt feedback,
\* whatever the finish reason of the candidate is.
C26_BlockReasonReported ==
    BlockedWithoutText =>
        /\ facadeResult.kind = "Error"
        /\ \E j \in 1..Len(facadeResult.message) :
               facadeResult.message[j] = facadeRequest.response.blockReason
        /\ Head(facadeResult.message) = "Prompt was blocked. Reason: "
        /\ \A i \in 1..Len(facadeRequest.response.promptRatings) :
               NamesRating(facadeResult.message, facadeRequest.response.promptRatings[i])
        /\ \A j \in 1..Len(facadeResult.message) :
               /\ facadeResult.message[j] # "Generation stopped unexpectedly. Reason: "
               /\ facadeResult.message[j] # facadeRequest.response.finishReason

C26_Witness ==
    /\ BlockedWithoutText
    /\ facadeRequest.op = "generateStorySummaryFromAudio"
    /\ facadeRequest.response.finishReason = "MAX_TOKENS"
    /\ Len(facadeRequest.response.promptRatings) = 2
    /\ facadeResult.kind = "Error"
    /\ Len(facadeResult.message) = 11

\* a recording that was accepted is being transcribed
RecordingInProcess == \E op \in BagToSet(creatorOps) : op.kind = "rec"

\* C27: when a completed recording is accepted no uploaded file stays armed,
\* and at any time at most one audio source is armed: an armed upload never
\* coexists with an accepted recording that is still being processed.
C27_RecordingSupersedesUpload ==
    /\ [](~(audioFile # NULL /\ RecordingInProcess))
    /\ [][creatorEvent' = "recording" => audioFile' = NULL]_vars

\* the prompt textarea accepts input
TypingPossible == ENABLED (\E t \in TextInputs : TypePrompt(t))

\* C28: while the creation card is shown with an audio source armed, typing
\* in the prompt field is possible, and a typing step clears the armed source
\* and leaves the typed text as the prompt.
C28_TypingClearsArmedAudio ==
    /\ []((FormVisible /\ audioFile # NULL) => TypingPossible)
    /\ [][\A t \in TextInputs :
            (audioFile # NULL /\ TypePrompt(t)) => (audioFile' = NULL /\ textPrompt' = t)]_vars

\* a step in which an accepted upload or a completed recording arrives
AudioActionArrives ==
    ~showWarningModal /\ creatorEvent' \in {"upload", "recording", "warn"}

\* the session state the confirmation protects
Protected == <<textPrompt, audioFile, imageHistory, activeImageIndex, appState, creatorOps>>

\* C29 (arrival): an audio-triggered action that arrives while the prompt is
\* non-empty after trimming only opens the confirmation.
C29_Arrival ==
    [][(AudioActionArrives /\ Trim(textPrompt) # <<>>) =>
          (showWarningModal' /\ UNCHANGED Protected)]_vars

\* C29 (decline): declining the confirmation leaves the protected state unchanged.
C29_Decline ==
    [][(showWarningModal /\ creatorEvent' = "decline") =>
          (~showWarningModal' /\ UNCHANGED Protected)]_vars

\* C29 (accept): accepting clears the prompt and performs the pending action.
C29_Accept ==
    [][(showWarningModal /\ creatorEvent' \in {"upload", "recording"}) =>
          /\ textPrompt' = <<>>
          /\ creatorEvent' = "upload" => (audioFile' = "file" /\ appState' = appState)
          /\ creatorEvent' = "recording" =>
                (audioFile' = NULL /\ appState' = "ANALYZING" /\ RecordingInProcess')]_vars

\* C29: an audio-triggered action that arrives while the prompt is non-empty
\* after trimming does nothing until the confirmation is answered; declining
\* leaves prompt, armed audio, history and session state unchanged; accepting
\* clears the prompt and then performs the action.
C29_ConfirmationGuardsPrompt == C29_Arrival /\ C29_Decline /\ C29_Accept

\* the subfolder the images of an archive belong in
ImagesFolder == IF download.of = "live" THEN "images" ELSE "storyboard_images"

\* the archive holds one summary entry and, for each image of the sequence it
\* was built from, one image entry under that image's file name in the folder
ArchiveComplete ==
    /\ Cardinality({e \in download.entries : e.kind = "summary"}) = 1
    /\ Cardinality({e \in download.entries : e.kind = "image"}) = Len(download.images)
    /\ \A k \in 1..Len(download.images) :
          \E e \in download.entries :
              /\ e.kind = "image"
              /\ e.path = <<ImagesFolder, download.images[k].fileName>>
              /\ e.data = download.images[k]

\* C30 (storyboard): the archive of the storyboard is complete.
C30_StoryboardArchive == download.of = "storyboard" => ArchiveComplete

\* C30: the archive produced by the download action of the storyboard and of
\* the live pipeline contains exactly one summary entry and exactly one image
\* entry per image of the result sequence, each under that image's file name
\* in the images subfolder.
C30_ArchiveComplete == download.of # "none" => ArchiveComplete

\* the entries of a sequence have pairwise distinct ids
DistinctIds(entries) ==
    \A i, j \in 1..Len(entries) : i # j => entries[i].id # entries[j].id

\* C31 (storyboard): the scenes of a storyboard result have distinct ids.
C31_StoryboardIds == DistinctIds(images)

\* C31: within the single-image history, the storyboard result and the
\* live-capture sequence all entries have pairwise distinct ids, also when
\* two of them are created at the same clock reading.
C31_DistinctIds ==
    DistinctIds(imageHistory) /\ DistinctIds(images) /\ DistinctIds(generatedImages)

\* C32: an edit request made while no history entry is selected, or with an
\* edit text that is empty after trimming and the style 'unspecified', issues
\* no facade call and changes neither the history nor any other state.
C32_InvalidEditIsNoOp ==
    [][\A q \in EditInputs, remix \in BOOLEAN :
          (/\ creatorEvent' \in {"editIgnored", "editStarted"}
           /\ EditRequest(q.editPrompt, q.filter, remix)
           /\ \/ ~HasActiveImage
              \/ (Trim(q.editPrompt) = <<>> /\ q.filter = "unspecified")) =>
             UNCHANGED <<appState, creatorError, audioFile, textPrompt, generationFilter,
                         imageHistory, activeImageIndex, showWarningModal,
                         modalConfirmAction, mic, creatorOps>>]_vars

C32_Witness ==
    /\ creatorEvent = "editIgnored"
    /\ HasActiveImage
    /\ appState = "IDLE"
    /\ creatorOps = EmptyBag

\* C33: a tick that is skipped because the previous tick's processing is
\* still in flight drops the audio buffered so far: the buffer is empty after
\* the skip, so that audio is in the blob of no later tick.
C33_SkippedTickDropsAudio ==
    [][(ProcessAudioChunk /\ isProcessingRef /\ audioChunksRef # <<>>) =>
          audioChunksRef' = <<>>]_vars

\* C34: a tick whose extracted blob is smaller than 1024 bytes issues no
\* facade call and appends no image; it empties the buffer and leaves the
\* in-flight flag released, so the next tick is not skipped for it.
C34_SmallBlobDiscarded ==
    [][(ProcessAudioChunk /\ ~TickBusy /\ BlobSize < 1024) =>
          /\ ticks' = ticks
          /\ generatedImages' = generatedImages
          /\ audioChunksRef' = <<>>
          /\ ~isProcessingRef']_vars

C34_Witness ==
    /\ liveEvent = "tickSmall"
    /\ liveState = "RECORDING"
    /\ audioChunksRef = <<>>
    /\ ~isProcessingRef
    /\ ticks = <<>>

\* the facade calls of the storyboard that have not settled: processFile is
\* one continuation that awaits one promise at a time
StoryboardInFlight == IF sbRun.stage = "none" THEN 0 ELSE 1

\* C35: in a storyboard run at most one call is in flight; segment i+1 is
\* interpreted only when the images of segments 1..i have been produced; the
\* summary is requested only when every segment has its image; and the run
\* becomes Finished with as many images as segments and with the summary set.
C35_StrictlySequential ==
    /\ [](/\ StoryboardInFlight <= 1
          /\ sbRun.stage \in {"fileToBase64", "generatePromptFromAudioSegment", "generateImage"} =>
                (Len(images) = sbRun.i /\ sbRun.i < sbRun.numSegments)
          /\ sbRun.stage \in {"summaryFileToBase64", "generateStorySummaryFromAudio"} =>
                Len(images) = sbRun.numSegments)
    /\ [][(storyboardState # "FINISHED" /\ storyboardState' = "FINISHED") =>
             (Len(images') = sbRun.numSegments /\ summary' # "")]_vars

C35_Witness ==
    /\ storyboardState = "FINISHED"
    /\ sbEvent = "finished"
    /\ Len(images) = 4
    /\ summary # ""

\* C36: an image is appended to the live-capture sequence only while the
\* pipeline is Recording; a tick still in flight when the capture stops or the
\* run is reset adds nothing in Config, Generating or Finished.
C36_AppendOnlyWhileRecording ==
    [][Len(generatedImages') > Len(generatedImages) =>
          (liveState = "RECORDING" /\ liveState' = "RECORDING")]_vars

\* C37: the in-flight flag is set only while a tick's calls are outstanding,
\* it is false again when the tick finishes, by success or by failure, and a
\* flag that is set is eventually released.
C37_FlagEventuallyReleased ==
    /\ [](isProcessingRef => ticks # <<>>)
    /\ [][Len(ticks') < Len(ticks) => ~isProcessingRef']_vars
    /\ (isProcessingRef ~> ~isProcessingRef)

C37_Witness ==
    /\ liveEvent = "tickFailed"
    /\ liveState = "RECORDING"
    /\ ~isProcessingRef
    /\ ticks = <<>>

C39_ActiveIndexValid ==
    \/ activeImageIndex = NoIndex /\ imageHistory = <<>>
    \/ activeImageIndex \in 0..(Len(imageHistory) - 1)

\* an edit that was pending over a Start Over has resolved
C39_Witness ==
    /\ creatorEvent = "editDone"
    /\ Len(imageHistory) = 2
    /\ activeImageIndex = 1
    /\ \E op \in BagToSet(creatorOps) : op.kind = "gen"

\* a failed creation or a failed edit has just been handled
RequestFailed == creatorEvent' \in {"genFailed", "editFailed"}

\* C40: the failure of a creation or of an edit leaves the history and the
\* active index as they were; of the session's fields only the error message
\* and the session state change.
C40_FailureKeepsHistory ==
    [][RequestFailed =>
          /\ UNCHANGED <<imageHistory, activeImageIndex>>
          /\ UNCHANGED <<audioFile, textPrompt, generationFilter,
                         showWarningModal, modalConfirmAction>>
          /\ creatorError' = FacadeError]_vars

\* an edit of the second of two images has failed
C40_Witness ==
    /\ creatorEvent = "editFailed"
    /\ Len(imageHistory) = 2
    /\ activeImageIndex = 1
    /\ creatorError = FacadeError
    /\ appState = "IDLE"

====
